---- MODULE Spec2Model ----
(***************************************************************************)
(* A model of spack's build environment module                             *)
(* (lib/spack/spack/build_environment.py):                                 *)
(*   - fork(): the parent/child protocol that runs a build action in an    *)
(*     isolated child process and relays its result over a pipe;           *)
(*   - setup_package(): the order of the environment setup steps;          *)
(*   - modifications_from_dependencies(): the composition of the           *)
(*     dependencies' environment contributions;                            *)
(*   - set_build_environment_variables(): the directory lists handed to    *)
(*     the compiler wrappers.                                              *)
(***************************************************************************)
EXTENDS Naturals, Sequences, FiniteSets, TLC

VARIABLES
    \* ---- fork(pkg, function, dirty, fake, context) ----
    call,           \* the arguments of fork(): [fake, dirty, context]
    pkgst,          \* attributes of pkg: [log_path, test_suite, test_requires_compiler]
    host,           \* the machine: [tty, compiler_ok, ccache, log_on_disk]
    ppc,            \* where the parent is in fork()
    cpc,            \* where the child is in child_process()
    cstep,          \* index of the next step of setup_package() in the child
    pipe,           \* messages sent on child_pipe and not yet received
    pipe_closed,    \* the child closed its end of the pipe
    input_stream,   \* the parent's duplicate of stdin: "None", "open", "closed"
    child_stdin,    \* sys.stdin in the child: "devnull" or "forwarded"
    return_value,   \* what function() returned in the child
    exc,            \* the exception being handled in the child
    child_result,   \* what the parent received
    outcome,        \* how the parent's call of fork() ended
    plog,           \* what the parent did, in order
    clog,           \* what the child did, in order
    \* ---- the dependency DAG and the environment built from it ----
    graph,          \* the deptypes of each edge <<u, v>> of the concrete DAG
    pkgcfg,         \* the root's recipe and the installed dependencies
    dep_context,    \* the context of modifications_from_dependencies
    dpc,            \* where the composition / the synthesis is
    todo,           \* the dependencies still to visit, in traversal order
                    \* (in setup_package: the steps still to take)
    calls,          \* the hooks invoked so far: <<[dep, method], ...>>
                    \* (in setup_package: what was done to os.environ)
    env,            \* the ledger (EnvironmentModifications) being filled
    environ,        \* os.environ
    preserved,      \* the values preserve_environment() keeps
    out             \* what long_message / write_log_summary wrote, in order

forkVars == <<call, pkgst, host, ppc, cpc, cstep, pipe, pipe_closed, input_stream,
              child_stdin, return_value, exc, child_result, outcome, plog, clog>>

depVars == <<graph, pkgcfg, dep_context, dpc, todo, calls, env, environ, preserved, out>>

vars == <<forkVars, depVars>>

\* None where a string is expected (a path, a type name, an attribute).
None == "None"

\* A variable of the model that holds no object yet.
Unset == [cls |-> "unset"]

\* Python's None as a value function() returns.
NoneValue == [cls |-> "NoneType"]

(***************************************************************************)
(* Objects.  Every object carries its class; an InstallError may carry the *)
(* pkg attribute the parent tags it with.                                  *)
(***************************************************************************)
PlainValue(n) == [cls |-> "value", v |-> n]

\* StopPhase(msg, long_msg): a SpackError with a message and a long message.
StopPhase(msg, long_msg) ==
    [cls |-> "StopPhase", message |-> msg, long_message |-> long_msg]

\* InstallError(msg): pkg is the attribute fork() annotates.
InstallError(msg) == [cls |-> "InstallError", message |-> msg, pkg |-> None]

\* ChildError.__init__
ChildError(msg, module, classname, traceback_string, ctx, build_log, test_log) ==
    [cls |-> "ChildError", message |-> msg, module |-> module, name |-> classname,
     traceback |-> traceback_string, context |-> ctx,
     build_log |-> build_log, test_log |-> test_log, pkg |-> None]

\* A value that pickle refuses: a function of a module that pickle cannot
\* look up by name, an open file, a lambda made inside a function.
UnpicklableKinds == {"module_lambda", "open_file", "local_lambda"}

Unpicklable(what) == [cls |-> "unpicklable", what |-> what]

\* isinstance(x, StopPhase), isinstance(x, InstallError), isinstance(x, ChildError)
IsStopPhase(x) == x.cls = "StopPhase"
IsChildError(x) == x.cls = "ChildError"
IsInstallError(x) == x.cls \in {"InstallError", "ChildError"}

(***************************************************************************)
(* Exceptions the recipe's code (hooks of setup, the build action) may     *)
(* raise, by type name, and the module that defines each type.             *)
(***************************************************************************)
RecipeExcTypes == {"StopPhase", "ProcessError", "InstallError", "TestFailure",
                   "SystemExit"}

ExcModule(t) ==
    CASE t = "ProcessError" -> "spack.util.executable"
      [] t = "TestFailure" -> "spack.install_test"
      [] t \in {"StopPhase", "InstallError", "ChildError"} -> "spack.build_environment"
      [] t = "CompilerAccessError" -> "spack.compiler"
      [] t = "PicklingError" -> "_pickle"
      [] t = "AttributeError" -> "builtins"
      [] OTHER -> "builtins"

Raised(t, where) == [type |-> t, where |-> where]

(***************************************************************************)
(* Crossing the pipe.  multiprocessing pickles what is sent: an object     *)
(* with __reduce__ travels as (function, arguments) and is rebuilt by the  *)
(* function in the parent; any other picklable value is copied.            *)
(***************************************************************************)
Picklable(x) == x.cls # "unpicklable"

\* What pickle raises for the value it refuses.
PickleError(x) ==
    CASE x.what = "module_lambda" -> "PicklingError"
      [] x.what = "open_file" -> "TypeError"
      [] x.what = "local_lambda" -> "AttributeError"

\* ChildError.__reduce__, StopPhase.__reduce__
Reduce(x) ==
    CASE IsChildError(x) ->
            [fn |-> "_make_child_error",
             args |-> <<x.message, x.module, x.name, x.traceback, x.context,
                        x.build_log, x.test_log>>]
      [] IsStopPhase(x) ->
            [fn |-> "_make_stop_phase", args |-> <<x.message, x.long_message>>]
      [] OTHER -> [fn |-> "copy", args |-> <<x>>]

\* A variant of _make_child_error: the two logs change places.
_make_child_error_logs_swapped(a) == ChildError(a[1], a[2], a[3], a[4], a[5], a[7], a[6])

_make_child_error(a) == ChildError(a[1], a[2], a[3], a[4], a[5], a[6], a[7])

_make_stop_phase(a) == StopPhase(a[1], a[2])

Rebuild(m) ==
    CASE m.fn = "_make_child_error" -> _make_child_error(m.args)
      [] m.fn = "_make_stop_phase" -> _make_stop_phase(m.args)
      [] OTHER -> m.args[1]

(***************************************************************************)
(* setup_package(pkg, dirty, context): the steps it takes, in order.       *)
(***************************************************************************)
NeedCompiler(context, test_requires_compiler) ==
    context = "build" \/ (context = "test" /\ test_requires_compiler)

\* A variant of CleanSteps: the environment is cleaned whatever dirty is.
CleanStepsAlways(dirty) == <<"clean_environment">>

CleanSteps(dirty) == IF dirty THEN <<>> ELSE <<"clean_environment">>

CompilerSteps(need_compiler) ==
    IF need_compiler
    THEN <<"set_compiler_environment_variables", "set_build_environment_variables">>
    ELSE <<>>

ContextSteps(context) ==
    IF context = "build"
    THEN <<"modifications_from_dependencies", "set_module_variables_for_package",
           "setup_build_environment">>
    ELSE <<"environment_modifications_for_spec", "set_module_variables_for_package",
           "prepend_path">>

\* A variant of SetupSteps: the platform's setup moved before the
\* compiler's.
SetupStepsPlatformFirst(dirty, context, need_compiler) ==
    CleanSteps(dirty) \o <<"setup_platform_environment">>
        \o CompilerSteps(need_compiler)
        \o ContextSteps(context)
        \o <<"load_modules", "implicit_rpaths", "validate", "apply_modifications">>

SetupSteps(dirty, context, need_compiler) ==
    CleanSteps(dirty) \o CompilerSteps(need_compiler)
        \o <<"setup_platform_environment">>
        \o ContextSteps(context)
        \o <<"load_modules", "implicit_rpaths", "validate", "apply_modifications">>

\* The steps of this call of fork().
Steps == SetupSteps(call.dirty, call.context,
                    NeedCompiler(call.context, pkgst.test_requires_compiler))

\* A step that cannot succeed on this machine, and what it raises:
\* compiler.verify_executables().  With config:ccache on, line 431 builds
\* Executable('ccache') without looking for the binary and line 432 tests
\* the object, which is never false: the raise of line 433 is not reached,
\* whether the binary is there or not.
MustRaise(step) ==
    CASE step = "set_compiler_environment_variables" /\ ~host.compiler_ok
            -> "CompilerAccessError"
      [] OTHER -> None

\* The steps that run code of recipes, which may raise anything: the
\* recipe's flag_handler and flags_to_build_system_args (lines 257-290),
\* the libs and headers of the dependencies (lines 337-354), the hooks of
\* the dependencies and of the package itself (lines 735-749).
MayRaise(step) ==
    IF step \in {"set_compiler_environment_variables",
                 "set_build_environment_variables",
                 "modifications_from_dependencies", "setup_build_environment",
                 "environment_modifications_for_spec"}
    THEN RecipeExcTypes ELSE {}

(***************************************************************************)
(* fork(): the call starts with the pipe created and nobody forked.        *)
(***************************************************************************)
MaxValue == 2

\* What function() may return: plain values, a value pickle refuses, and
\* objects of the classes the parent looks for.
ReturnValues ==
    {PlainValue(n) : n \in 1..MaxValue}
        \cup {Unpicklable(w) : w \in UnpicklableKinds}
        \cup {NoneValue, StopPhase("returned", ""),
              InstallError("returned")}

NoOutcome == [kind |-> "none"]

ForkInit ==
    /\ call \in [fake : BOOLEAN, dirty : BOOLEAN, context : {"build", "test"}]
    /\ pkgst \in [log_path : BOOLEAN, test_suite : BOOLEAN,
                  test_requires_compiler : BOOLEAN]
    /\ host \in [tty : BOOLEAN, compiler_ok : BOOLEAN,
                 ccache : {"off", "found", "missing"}, log_on_disk : BOOLEAN]
    /\ ppc = "dup_stdin"
    /\ cpc = "none"
    /\ cstep = 1
    /\ pipe = <<>>
    /\ pipe_closed = FALSE
    /\ input_stream = None
    /\ child_stdin = "devnull"
    /\ return_value = Unset
    /\ exc = Unset
    /\ child_result = Unset
    /\ outcome = NoOutcome
    /\ plog = <<>>
    /\ clog = <<>>

(***************************************************************************)
(* The child: child_process(child_pipe, input_stream).                     *)
(***************************************************************************)
childVars == <<cpc, cstep, pipe, pipe_closed, child_stdin, return_value, exc, clog>>
parentVars == <<ppc, input_stream, child_result, outcome, plog>>
inputVars == <<call, pkgst, host, depVars>>

\* if input_stream is not None: sys.stdin = input_stream
ChildBegin ==
    /\ cpc = "begin"
    /\ child_stdin' = IF host.tty THEN "forwarded" ELSE "devnull"
    /\ cpc' = IF call.fake THEN "call" ELSE "setup"
    /\ UNCHANGED <<cstep, pipe, pipe_closed, return_value, exc, clog>>
    /\ UNCHANGED <<parentVars, inputVars>>

\* One step of setup_package(pkg, dirty=dirty, context=context): it
\* completes, or it raises and control passes to the except clauses.
ChildSetupStep ==
    /\ cpc = "setup"
    /\ LET step == Steps[cstep] IN
        \/ /\ MustRaise(step) # None
           /\ exc' = Raised(MustRaise(step), step)
           /\ cpc' = "except"
           /\ UNCHANGED <<cstep, clog>>
        \/ /\ MustRaise(step) = None
           /\ \E t \in MayRaise(step) :
                /\ exc' = Raised(t, step)
                /\ cpc' = "except"
                /\ UNCHANGED <<cstep, clog>>
        \/ /\ MustRaise(step) = None
           /\ clog' = Append(clog, step)
           /\ cstep' = cstep + 1
           /\ cpc' = IF cstep = Len(Steps) THEN "call" ELSE "setup"
           /\ exc' = exc
    /\ UNCHANGED <<pipe, pipe_closed, child_stdin, return_value>>
    /\ UNCHANGED <<parentVars, inputVars>>

\* return_value = function()
ChildCall ==
    /\ cpc = "call"
    /\ clog' = Append(clog, "function")
    /\ \/ \E v \in ReturnValues :
            /\ return_value' = v
            /\ cpc' = "send"
            /\ exc' = exc
       \/ \E t \in RecipeExcTypes :
            /\ exc' = Raised(t, "function")
            /\ cpc' = "except"
            /\ return_value' = return_value
    /\ UNCHANGED <<cstep, pipe, pipe_closed, child_stdin>>
    /\ UNCHANGED <<parentVars, inputVars>>

\* child_pipe.send(return_value): a value pickle refuses raises here,
\* inside the try.
ChildSend ==
    /\ cpc = "send"
    /\ IF Picklable(return_value)
       THEN /\ pipe' = Append(pipe, Reduce(return_value))
            /\ clog' = Append(clog, "send")
            /\ cpc' = "finally"
            /\ exc' = exc
       ELSE /\ exc' = Raised(PickleError(return_value), "send")
            /\ cpc' = "except"
            /\ UNCHANGED <<pipe, clog>>
    /\ UNCHANGED <<cstep, pipe_closed, child_stdin, return_value>>
    /\ UNCHANGED <<parentVars, inputVars>>

\* get_package_context(traceback.extract_tb(tb)): the lines of recipe
\* source around the place the exception was raised.
PackageContext(e) == <<e.where>>

\* A variant of MakeChildError: the exception is sent as it was caught,
\* not wrapped in a ChildError.
MakeChildErrorUnwrapped(e) ==
    [cls |-> e.type, message |-> <<e.type, "message">>, pkg |-> None]

\* A variant of MakeChildError: the type's module and name change places.
MakeChildErrorSwapped(e) ==
    ChildError(<<e.type, "message">>,
               e.type,
               ExcModule(e.type),
               <<"Traceback", e.where, e.type>>,
               IF e.type # "TestFailure" THEN PackageContext(e) ELSE <<>>,
               IF call.context = "build" /\ pkgst.log_path THEN "build_log" ELSE None,
               IF call.context = "test" THEN "test_log" ELSE None)

\* The ChildError built by the except BaseException clause.
MakeChildError(e) ==
    ChildError(<<e.type, "message">>,
               ExcModule(e.type),
               e.type,
               <<"Traceback", e.where, e.type>>,
               IF e.type # "TestFailure" THEN PackageContext(e) ELSE <<>>,
               IF call.context = "build" /\ pkgst.log_path THEN "build_log" ELSE None,
               IF call.context = "test" THEN "test_log" ELSE None)

\* A variant of ChildExceptStopPhase: no clause of its own, so the
\* StopPhase is wrapped in a ChildError like any other exception.
ChildExceptStopPhaseWrapped ==
    /\ cpc = "except"
    /\ exc.type = "StopPhase"
    /\ pipe' = Append(pipe, Reduce(MakeChildError(exc)))
    /\ clog' = clog \o <<"format_exc", "get_package_context", "ChildError", "send">>
    /\ cpc' = "finally"
    /\ UNCHANGED <<cstep, pipe_closed, child_stdin, return_value, exc>>
    /\ UNCHANGED <<parentVars, inputVars>>

\* except StopPhase as e: child_pipe.send(e)
ChildExceptStopPhase ==
    /\ cpc = "except"
    /\ exc.type = "StopPhase"
    /\ pipe' = Append(pipe, Reduce(StopPhase("stop", "")))
    /\ clog' = Append(clog, "send")
    /\ cpc' = "finally"
    /\ UNCHANGED <<cstep, pipe_closed, child_stdin, return_value, exc>>
    /\ UNCHANGED <<parentVars, inputVars>>

\* except BaseException: build a ChildError and send it.  In test context
\* the test log is pkg.test_suite.stage/...: with no test suite on pkg the
\* handler itself raises and nothing is sent.
ChildExceptBaseException ==
    /\ cpc = "except"
    /\ exc.type # "StopPhase"
    /\ IF call.context = "test" /\ ~pkgst.test_suite
       THEN /\ exc' = Raised("AttributeError", "handler")
            /\ clog' = clog \o <<"format_exc">>
                   \o (IF exc.type # "TestFailure"
                       THEN <<"get_package_context">> ELSE <<>>)
            /\ pipe' = pipe
       ELSE /\ pipe' = Append(pipe, Reduce(MakeChildError(exc)))
            /\ clog' = clog \o <<"format_exc">>
                   \o (IF exc.type # "TestFailure"
                       THEN <<"get_package_context">> ELSE <<>>)
                   \o <<"ChildError", "send">>
            /\ exc' = exc
    /\ cpc' = "finally"
    /\ UNCHANGED <<cstep, pipe_closed, child_stdin, return_value>>
    /\ UNCHANGED <<parentVars, inputVars>>

\* finally: child_pipe.close(); then the process ends.
ChildFinally ==
    /\ cpc = "finally"
    /\ pipe_closed' = TRUE
    /\ clog' = Append(clog, "close")
    /\ cpc' = "exited"
    /\ UNCHANGED <<cstep, pipe, child_stdin, return_value, exc>>
    /\ UNCHANGED <<parentVars, inputVars>>

\* The child's process is ended from outside (a signal) while it runs.
ChildKilled ==
    /\ cpc \in {"begin", "setup", "call", "send", "except", "finally"}
    /\ cpc' = "exited"
    /\ clog' = Append(clog, "killed")
    /\ UNCHANGED <<cstep, pipe, pipe_closed, child_stdin, return_value, exc>>
    /\ UNCHANGED <<parentVars, inputVars>>

(***************************************************************************)
(* Rendering an error: ChildError.long_message and write_log_summary.      *)
(* What is written is kept as a sequence of parts.                         *)
(***************************************************************************)
\* ChildError.build_errors
build_errors == {<<"spack.util.executable", "ProcessError">>}

Part(part, of, log_type, n, body) ==
    [part |-> part, of |-> of, log_type |-> log_type, n |-> n, body |-> body]

\* "\n%s found in %s log:\n" % (plural(n, of), log_type)
Header(of, log_type, n) == Part("header", of, log_type, n, <<>>)

\* make_log_context(events)
Excerpt(of, log_type, events) == Part("excerpt", of, log_type, Len(events), events)

Newline == Part("newline", "", "", 0, <<>>)

\* '\n'.join(self.context)
ContextLines(lines) == Part("context", "", "", Len(lines), lines)

\* 'See build log for details:\n  %s\n' % self.build_log
Pointer(log_type, path) == Part("pointer", "", log_type, 0, <<path>>)

\* parse_log_events(log): the errors and the warnings of the log, each in
\* the order of their lines.
parse_log_events(log) ==
    [errors |-> [i \in 1..log.nerr |-> [kind |-> "error", line |-> i]],
     warnings |-> [i \in 1..log.nwar |-> [kind |-> "warning", line |-> i]]]

\* events[-last:]
LastOf(events, last) == SubSeq(events, Len(events) - last + 1, Len(events))

\* A variant of write_log_summary: the warnings are written whenever there
\* are any, after the errors.
write_log_summary_both(o, log_type, log, last) ==
    LET errors == parse_log_events(log).errors
        warnings == parse_log_events(log).warnings
        shown_errors == IF last # 0 /\ Len(errors) > last
                        THEN LastOf(errors, last) ELSE errors
        shown_warnings == IF last # 0 /\ Len(warnings) > last
                          THEN LastOf(warnings, last) ELSE warnings
    IN  o \o (IF Len(errors) > 0
              THEN <<Header("error", log_type, Len(shown_errors)),
                     Excerpt("error", log_type, shown_errors)>>
              ELSE <<>>)
          \o (IF Len(warnings) > 0
              THEN <<Header("warning", log_type, Len(shown_warnings)),
                     Excerpt("warning", log_type, shown_warnings)>>
              ELSE <<>>)

\* write_log_summary(out, log_type, log, last): last = 0 stands for the
\* values Python takes as false, None and 0.
write_log_summary(o, log_type, log, last) ==
    LET errors == parse_log_events(log).errors
        warnings == parse_log_events(log).warnings
        shown_errors == IF last # 0 /\ Len(errors) > last
                        THEN LastOf(errors, last) ELSE errors
        shown_warnings == IF last # 0 /\ Len(warnings) > last
                          THEN LastOf(warnings, last) ELSE warnings
    IN  IF Len(errors) > 0
        THEN o \o <<Header("error", log_type, Len(shown_errors)),
                    Excerpt("error", log_type, shown_errors)>>
        ELSE IF Len(warnings) > 0
        THEN o \o <<Header("warning", log_type, Len(shown_warnings)),
                    Excerpt("warning", log_type, shown_warnings)>>
        ELSE o

\* self.build_log and os.path.exists(self.build_log)
LogThere(path, log) == path # None /\ log.exists

\* The end of long_message: the blank line and the paths of the logs.
LongMessageTail(e, fs, o) ==
       (IF o # <<>> THEN Append(o, Newline) ELSE o)
    \o (IF LogThere(e.build_log, fs.build)
        THEN <<Pointer("build", e.build_log)>> ELSE <<>>)
    \o (IF LogThere(e.test_log, fs.test)
        THEN <<Pointer("test", e.test_log)>> ELSE <<>>)

\* A variant of long_message: the context of the recipe is written for
\* every error.
long_message_context_always(e, fs) ==
    LET summary ==
            IF <<e.module, e.name>> \in build_errors
            THEN LET o1 == IF LogThere(e.build_log, fs.build)
                           THEN write_log_summary(<<>>, "build", fs.build, 0)
                           ELSE <<>>
                 IN  IF LogThere(e.test_log, fs.test)
                     THEN write_log_summary(o1, "test", fs.test, 0)
                     ELSE o1
            ELSE <<>>
        o2 == IF e.context # <<>>
              THEN summary \o <<Newline, ContextLines(e.context), Newline>>
              ELSE summary
    IN  LongMessageTail(e, fs, o2)

\* ChildError.long_message; a ChildError has no _long_message of its own.
long_message(e, fs) ==
    LET o1 == IF <<e.module, e.name>> \in build_errors
              THEN LET b == IF LogThere(e.build_log, fs.build)
                            THEN write_log_summary(<<>>, "build", fs.build, 0)
                            ELSE <<>>
                   IN  IF LogThere(e.test_log, fs.test)
                       THEN write_log_summary(b, "test", fs.test, 0)
                       ELSE b
              ELSE IF e.context # <<>>
                   THEN <<Newline, ContextLines(e.context), Newline>>
                   ELSE <<>>
    IN  LongMessageTail(e, fs, o1)

(***************************************************************************)
(* The parent: the body of fork().                                         *)
(***************************************************************************)
\* What the spawn (multiprocessing.Process, p.start) may raise when it
\* fails: an InstallError, or an error of the operating system.
SpawnErrors == {InstallError("spawn"), [cls |-> "OSError"]}

\* What os.dup and os.fdopen may raise: an error of the operating system.
DupErrors == {[cls |-> "OSError"]}

\* e.pkg = pkg / child_result.pkg = pkg
TagPkg(x) == [x EXCEPT !.pkg = "pkg"]

\* A variant of SpawnHandler: the exception is re-raised untagged.
SpawnHandlerNoTag(e) == e

\* except InstallError as e: e.pkg = pkg; raise
SpawnHandler(e) == IF IsInstallError(e) THEN TagPkg(e) ELSE e

\* if sys.stdin.isatty() and hasattr(sys.stdin, 'fileno'):
\*     input_stream = os.fdopen(os.dup(sys.stdin.fileno()))
\* The duplicate is opened, or os.dup raises: nothing was assigned to
\* input_stream and the exception unwinds through except and finally.
ParentDupStdin ==
    /\ ppc = "dup_stdin"
    /\ \/ /\ input_stream' = IF host.tty THEN "open" ELSE None
          /\ ppc' = "spawn"
          /\ outcome' = outcome
       \/ /\ host.tty
          /\ \E e \in DupErrors :
                outcome' = [kind |-> "unwinding", val |-> SpawnHandler(e)]
          /\ input_stream' = None
          /\ ppc' = "finally"
    /\ UNCHANGED <<child_result, plog>>
    /\ UNCHANGED <<childVars, inputVars>>

\* p = multiprocessing.Process(...); p.start(): the child starts, or the
\* spawn raises and the exception unwinds through except and finally.
ParentSpawn ==
    /\ ppc = "spawn"
    /\ \/ /\ cpc' = "begin"
          /\ plog' = Append(plog, "start")
          /\ outcome' = outcome
       \/ \E e \in SpawnErrors :
            /\ outcome' = [kind |-> "unwinding", val |-> SpawnHandler(e)]
            /\ plog' = plog
            /\ cpc' = cpc
    /\ ppc' = "finally"
    /\ UNCHANGED <<input_stream, child_result>>
    /\ UNCHANGED <<cstep, pipe, pipe_closed, child_stdin, return_value, exc, clog>>
    /\ UNCHANGED inputVars

\* finally: if input_stream is not None: input_stream.close()
ParentFinally ==
    /\ ppc = "finally"
    /\ input_stream' = IF input_stream # None THEN "closed" ELSE None
    /\ IF outcome.kind = "unwinding"
       THEN /\ outcome' = [kind |-> "raise", val |-> outcome.val]
            /\ plog' = Append(plog, "raise")
            /\ ppc' = "done"
       ELSE /\ ppc' = "recv"
            /\ UNCHANGED <<outcome, plog>>
    /\ UNCHANGED child_result
    /\ UNCHANGED <<childVars, inputVars>>

\* child_result = parent_pipe.recv(): blocks until a message is there.
\* The parent keeps its own handle on the child's end of the pipe, so the
\* end of the child alone never wakes it.
ParentRecv ==
    /\ ppc = "recv"
    /\ pipe # <<>>
    /\ child_result' = Rebuild(Head(pipe))
    /\ pipe' = Tail(pipe)
    /\ plog' = Append(plog, "recv")
    /\ ppc' = "join"
    /\ UNCHANGED <<input_stream, outcome>>
    /\ UNCHANGED <<cpc, cstep, pipe_closed, child_stdin, return_value, exc, clog>>
    /\ UNCHANGED inputVars

\* A variant of ParentJoin: the join is left out.
ParentJoinSkipped ==
    /\ ppc = "join"
    /\ ppc' = "inspect"
    /\ UNCHANGED <<input_stream, child_result, outcome, plog>>
    /\ UNCHANGED <<childVars, inputVars>>

\* p.join(): blocks until the child's process has ended.
ParentJoin ==
    /\ ppc = "join"
    /\ cpc = "exited"
    /\ plog' = Append(plog, "join")
    /\ ppc' = "inspect"
    /\ UNCHANGED <<input_stream, child_result, outcome>>
    /\ UNCHANGED <<childVars, inputVars>>

\* A variant of ParentInspect: a ChildError is raised without being
\* rendered.
ParentInspectNoPrint ==
    /\ ppc = "inspect"
    /\ IF IsStopPhase(child_result)
       THEN /\ outcome' = [kind |-> "raise", val |-> child_result]
            /\ plog' = Append(plog, "raise")
            /\ ppc' = "done"
            /\ UNCHANGED child_result
       ELSE LET tagged == IF IsInstallError(child_result)
                          THEN TagPkg(child_result) ELSE child_result
            IN  /\ child_result' = tagged
                /\ IF IsChildError(tagged)
                   THEN /\ ppc' = "raise"
                        /\ UNCHANGED <<outcome, plog>>
                   ELSE /\ outcome' = [kind |-> "return", val |-> tagged]
                        /\ plog' = Append(plog, "return")
                        /\ ppc' = "done"
    /\ UNCHANGED input_stream
    /\ UNCHANGED <<childVars, inputVars>>

\* The three tests on child_result after the join.
ParentInspect ==
    /\ ppc = "inspect"
    /\ IF IsStopPhase(child_result)
       THEN /\ outcome' = [kind |-> "raise", val |-> child_result]
            /\ plog' = Append(plog, "raise")
            /\ ppc' = "done"
            /\ UNCHANGED child_result
       ELSE LET tagged == IF IsInstallError(child_result)
                          THEN TagPkg(child_result) ELSE child_result
            IN  /\ child_result' = tagged
                /\ IF IsChildError(tagged)
                   THEN /\ ppc' = "print_context"
                        /\ UNCHANGED <<outcome, plog>>
                   ELSE /\ outcome' = [kind |-> "return", val |-> tagged]
                        /\ plog' = Append(plog, "return")
                        /\ ppc' = "done"
    /\ UNCHANGED input_stream
    /\ UNCHANGED <<childVars, inputVars>>

\* The log files the parent finds when it renders the error: the log of
\* this context, if the action got as far as writing one, with a line
\* the log parser takes for an error.
DiskLogs ==
    LET log == IF host.log_on_disk
               THEN [exists |-> TRUE, nerr |-> 1, nwar |-> 0]
               ELSE [exists |-> FALSE, nerr |-> 0, nwar |-> 0]
    IN  [build |-> log, test |-> log]

\* A variant of ParentPrintContext: the short message alone is printed.
ParentPrintContextShort ==
    /\ ppc = "print_context"
    /\ plog' = Append(plog, "print_context")
    /\ out' = <<>>
    /\ ppc' = "raise"
    /\ UNCHANGED <<input_stream, child_result, outcome>>
    /\ UNCHANGED <<childVars, call, pkgst, host>>
    /\ UNCHANGED <<graph, pkgcfg, dep_context, dpc, todo, calls, env, environ,
                   preserved>>

\* child_result.print_context(): the message and the long message are
\* printed; out keeps the long message.
ParentPrintContext ==
    /\ ppc = "print_context"
    /\ plog' = Append(plog, "print_context")
    /\ out' = long_message(child_result, DiskLogs)
    /\ ppc' = "raise"
    /\ UNCHANGED <<input_stream, child_result, outcome>>
    /\ UNCHANGED <<childVars, call, pkgst, host>>
    /\ UNCHANGED <<graph, pkgcfg, dep_context, dpc, todo, calls, env, environ,
                   preserved>>

\* raise child_result
ParentRaise ==
    /\ ppc = "raise"
    /\ outcome' = [kind |-> "raise", val |-> child_result]
    /\ plog' = Append(plog, "raise")
    /\ ppc' = "done"
    /\ UNCHANGED <<input_stream, child_result>>
    /\ UNCHANGED <<childVars, inputVars>>

ForkNext ==
    \/ ParentDupStdin
    \/ ParentSpawn
    \/ ParentFinally
    \/ ParentRecv
    \/ ParentJoin
    \/ ParentInspect
    \/ ParentPrintContext
    \/ ParentRaise
    \/ ChildBegin
    \/ ChildSetupStep
    \/ ChildCall
    \/ ChildSend
    \/ ChildExceptStopPhase
    \/ ChildExceptBaseException
    \/ ChildFinally
    \/ ChildKilled

\* fork() is studied on its own: the DAG plays no part in its protocol.
DepIdle ==
    /\ graph = <<>>
    /\ pkgcfg = <<>>
    /\ dep_context = "build"
    /\ dpc = "idle"
    /\ todo = <<>>
    /\ calls = <<>>
    /\ env = <<>>
    /\ environ = <<>>
    /\ preserved = <<>>
    /\ out = <<>>

Init == ForkInit /\ DepIdle

Next == ForkNext

Spec == Init /\ [][Next]_vars

(***************************************************************************)
(* Reading the logs.                                                       *)
(***************************************************************************)
Has(log, x) == \E i \in 1..Len(log) : log[i] = x

Count(log, x) == Cardinality({i \in 1..Len(log) : log[i] = x})

\* The position of the first x in log (0 when there is none).
Pos(log, x) ==
    IF Has(log, x) THEN CHOOSE i \in 1..Len(log) :
                            log[i] = x /\ \A j \in 1..(i - 1) : log[j] # x
    ELSE 0

Before(log, x, y) == Has(log, x) /\ Has(log, y) /\ Pos(log, x) < Pos(log, y)

ChildStarted == Has(plog, "start")

StopPhaseRaised == StopPhase("stop", "")

(***************************************************************************)
(* C1.  When the child was started and fork() has ended, it ended in one   *)
(* of three ways: it returned the value function() returned, it raised a   *)
(* StopPhase, or it raised a ChildError; it raised nothing else.           *)
(***************************************************************************)
ReturnedActionValue ==
    /\ outcome.kind = "return"
    /\ return_value # Unset
    /\ outcome.val = IF IsInstallError(return_value)
                     THEN TagPkg(return_value) ELSE return_value

C1_ForkEndsThreeWays ==
    (ppc = "done" /\ ChildStarted) =>
        \/ ReturnedActionValue
        \/ outcome.kind = "raise" /\ IsStopPhase(outcome.val)
        \/ outcome.kind = "raise" /\ IsChildError(outcome.val)

\* A BaseException that is no Exception (SystemExit) raised by the action
\* reached the caller as a ChildError.
C1_Witness ==
    /\ ppc = "done"
    /\ ChildStarted
    /\ exc # Unset
    /\ exc.type = "SystemExit"
    /\ exc.where = "function"
    /\ outcome.kind = "raise"
    /\ IsChildError(outcome.val)

(***************************************************************************)
(* C2.  The parent receives at most once and joins at most once; whenever  *)
(* it inspects the result, prints or ends after the child was started, it  *)
(* has received exactly once and joined exactly once, the receive first.   *)
(***************************************************************************)
C2_OneRecvOneJoinFirst ==
    /\ Count(plog, "recv") <= 1
    /\ Count(plog, "join") <= 1
    /\ Has(plog, "join") => Before(plog, "recv", "join")
    /\ (ChildStarted /\ (\/ ppc \in {"inspect", "print_context", "raise", "done"}
                         \/ Has(plog, "print_context")
                         \/ Has(plog, "raise")
                         \/ Has(plog, "return")))
         => /\ Count(plog, "recv") = 1
            /\ Count(plog, "join") = 1
            /\ Before(plog, "recv", "join")
            /\ \A x \in {"print_context", "raise", "return"} :
                    Has(plog, x) => Before(plog, "join", x)

C2_Witness ==
    /\ ppc = "done"
    /\ ChildStarted
    /\ outcome.kind = "return"
    /\ plog = <<"start", "recv", "join", "return">>

(***************************************************************************)
(* C3.  A StopPhase raised in the child (by setup or by the action) is     *)
(* sent as it is: no traceback is formatted, no source context collected,  *)
(* no ChildError built; the parent raises that StopPhase and does not call *)
(* print_context.                                                          *)
(***************************************************************************)
StopPhaseCaught ==
    /\ exc # Unset
    /\ exc.type = "StopPhase"
    /\ Has(clog, "send")

C3_StopPhaseSentVerbatim ==
    StopPhaseCaught =>
        /\ ~Has(clog, "format_exc")
        /\ ~Has(clog, "get_package_context")
        /\ ~Has(clog, "ChildError")
        /\ pipe # <<>> => Rebuild(Head(pipe)) = StopPhaseRaised
        /\ child_result # Unset => child_result = StopPhaseRaised
        /\ ~Has(plog, "print_context")
        /\ ppc = "done" => outcome = [kind |-> "raise", val |-> StopPhaseRaised]

\* Setup raised StopPhase and the parent re-raised it.
C3_Witness ==
    /\ StopPhaseCaught
    /\ exc.where = "setup_build_environment"
    /\ ppc = "done"
    /\ outcome.kind = "raise"
    /\ IsStopPhase(outcome.val)

(***************************************************************************)
(* C4.  A ChildError the parent received is rendered once (print_context)  *)
(* and then raised: print_context is the step right before the raise, the  *)
(* raise follows whenever it was rendered, and nothing else is rendered.   *)
(***************************************************************************)
ReceivedChildError == child_result # Unset /\ IsChildError(child_result)

C4_RenderedOnceThenRaised ==
    /\ Count(plog, "print_context") <= 1
    /\ Has(plog, "print_context") => ReceivedChildError
    /\ (ReceivedChildError /\ ppc = "done") =>
            /\ Len(plog) >= 2
            /\ plog[Len(plog) - 1] = "print_context"
            /\ plog[Len(plog)] = "raise"
            /\ outcome = [kind |-> "raise", val |-> child_result]
    /\ (ReceivedChildError /\ Has(plog, "raise")) =>
            Before(plog, "print_context", "raise")
    /\ ppc = "raise" => (Has(plog, "print_context") /\ ENABLED ParentRaise)

C4_Witness ==
    /\ ReceivedChildError
    /\ ppc = "done"
    /\ child_result.name = "ProcessError"
    /\ Count(plog, "print_context") = 1

(***************************************************************************)
(* C5.  As claimed: when the spawn fails before the child starts, fork()   *)
(* raises an InstallError whose pkg is the target package, and the parent  *)
(* neither receives nor joins.                                             *)
(***************************************************************************)
SpawnFailed == ppc = "done" /\ ~ChildStarted

C5_SpawnFailureRaisesInstallError ==
    SpawnFailed =>
        /\ outcome.kind = "raise"
        /\ IsInstallError(outcome.val)
        /\ outcome.val.pkg = "pkg"
        /\ ~Has(plog, "recv")
        /\ ~Has(plog, "join")

(***************************************************************************)
(* C5, amended.  When the spawn fails before the child starts, fork()      *)
(* raises what the spawn raised: an InstallError with its pkg set to the   *)
(* target package, any other exception as it is.  The parent's duplicate   *)
(* of stdin is closed, no child exists, and the parent neither receives    *)
(* nor joins; it reaches the receive only when the child was started.      *)
(***************************************************************************)
C5_SpawnFailurePropagates ==
    /\ SpawnFailed =>
        /\ outcome.kind = "raise"
        /\ \E e \in SpawnErrors :
              outcome.val = IF e.cls = "InstallError"
                            THEN [e EXCEPT !.pkg = "pkg"] ELSE e
        /\ cpc = "none"
        /\ input_stream # "open"
        /\ ~Has(plog, "recv")
        /\ ~Has(plog, "join")
    /\ (ppc \in {"recv", "join", "inspect", "print_context", "raise"}
            \/ Has(plog, "recv") \/ Has(plog, "join")) => ChildStarted

C5_Witness ==
    /\ SpawnFailed
    /\ outcome.kind = "raise"
    /\ outcome.val.cls = "InstallError"
    /\ outcome.val.pkg = "pkg"
    /\ host.tty
    /\ input_stream = "closed"

(***************************************************************************)
(* C6.  As claimed: in a non-fake run in build context the six steps       *)
(* clean, compiler variables, build variables, platform setup, dependency  *)
(* composition and the recipe's setup_build_environment have all completed,*)
(* in this order and once each, when the action is invoked; in fake mode   *)
(* none of them runs.                                                      *)
(***************************************************************************)
SixSteps ==
    <<"clean_environment", "set_compiler_environment_variables",
      "set_build_environment_variables", "setup_platform_environment",
      "modifications_from_dependencies", "setup_build_environment">>

IsSixStep(x) == \E i \in 1..Len(SixSteps) : SixSteps[i] = x

\* The six steps the child completed, in the order it completed them.
SixStepsDone == SelectSeq(clog, IsSixStep)

IsPrefix(a, b) == Len(a) <= Len(b) /\ \A i \in 1..Len(a) : a[i] = b[i]

ActionInvoked == Has(clog, "function")

C6_AllSixStepsBeforeAction ==
    /\ (ActionInvoked /\ ~call.fake /\ call.context = "build") =>
            SixStepsDone = SixSteps
    /\ call.fake => SixStepsDone = <<>>

(***************************************************************************)
(* C6, amended.  In a non-fake run in build context the child completes    *)
(* the steps in the order clean, compiler variables, build variables,      *)
(* platform setup, dependency composition, setup_build_environment, each   *)
(* at most once, where clean runs only when dirty is false; when the       *)
(* action is invoked all of them (all but clean when dirty is true) have   *)
(* completed before it.  In fake mode none runs and the action is the      *)
(* first thing the child does.                                             *)
(***************************************************************************)
StepsDue == IF call.dirty THEN Tail(SixSteps) ELSE SixSteps

C6_SetupOrderBeforeAction ==
    /\ (~call.fake /\ call.context = "build") =>
            /\ IsPrefix(SixStepsDone, StepsDue)
            /\ ActionInvoked =>
                    /\ SixStepsDone = StepsDue
                    /\ \A i \in 1..Len(StepsDue) :
                            Before(clog, StepsDue[i], "function")
    /\ call.fake =>
            /\ SixStepsDone = <<>>
            /\ ActionInvoked => clog[1] = "function"
    /\ Count(clog, "function") <= 1

C6_Witness ==
    /\ ~call.fake
    /\ call.context = "build"
    /\ call.dirty
    /\ ActionInvoked
    /\ SixStepsDone = Tail(SixSteps)

(***************************************************************************)
(* C7.  As claimed: a missing required compiler executable and a missing   *)
(* ccache binary when ccache is requested are setup errors, and when a     *)
(* setup error occurs no child process has been started.  So where ccache  *)
(* is requested and missing, set_build_environment_variables does not      *)
(* complete.                                                               *)
(***************************************************************************)
SetupErrorRaised ==
    /\ exc # Unset
    /\ \/ exc.type = "CompilerAccessError"
             /\ exc.where = "set_compiler_environment_variables"
       \/ exc.type = "RuntimeError"
             /\ exc.where = "set_build_environment_variables"

C7_SetupErrorBeforeFork ==
    /\ SetupErrorRaised => (cpc = "none" /\ ~ChildStarted)
    /\ host.ccache = "missing" => ~Has(clog, "set_build_environment_variables")

\* ccache is requested and missing, and the setup has completed and the
\* action has run: fork() returns its value.
C7_MissingCcacheUnnoticed ==
    /\ host.ccache = "missing"
    /\ Has(clog, "set_build_environment_variables")
    /\ ActionInvoked
    /\ ppc = "done"
    /\ outcome.kind = "return"

(***************************************************************************)
(* The setup error the code does raise, the missing compiler executable,   *)
(* is raised inside the child: the child has been started, the action has  *)
(* not been and will not be invoked, and when fork() ends it raises a      *)
(* ChildError that names the error's type and module and carries the       *)
(* target package.                                                         *)
(***************************************************************************)
C7_SetupErrorInChild ==
    SetupErrorRaised =>
        /\ ChildStarted
        /\ cpc # "none"
        /\ ~ActionInvoked
        /\ cpc \notin {"setup", "call", "send"}
        /\ ppc = "done" =>
              /\ outcome.kind = "raise"
              /\ IsChildError(outcome.val)
              /\ outcome.val.name = exc.type
              /\ outcome.val.module = ExcModule(exc.type)
              /\ outcome.val.pkg = "pkg"

C7_Witness ==
    /\ SetupErrorRaised
    /\ exc.type = "CompilerAccessError"
    /\ ppc = "done"
    /\ IsChildError(outcome.val)

(***************************************************************************)
(* The concrete dependency DAG.  Node 1 is the root (the package being     *)
(* built); an edge <<u, v>> with u < v says u depends on v, with a set of  *)
(* deptypes.  Edges only go from a smaller to a larger node, so the graph  *)
(* is acyclic.                                                             *)
(***************************************************************************)
MaxNodes == 3

Nodes == 1..MaxNodes

Root == 1

Deps == Nodes \ {Root}

Edges == {e \in Nodes \X Nodes : e[1] < e[2]}

NodeNames == <<"a", "b", "c", "d", "e", "f">>

Name(n) == NodeNames[n]

\* The deptypes of the edge from u to v ({} when there is none).
EdgeTypes(g, u, v) == IF <<u, v>> \in DOMAIN g THEN g[<<u, v>>] ELSE {}

\* spec.dependencies(deptype=types): the direct dependencies through an
\* edge of one of the types.
dependencies(g, u, types) == {v \in Nodes : EdgeTypes(g, u, v) \cap types # {}}

Min(S) == CHOOSE x \in S : \A y \in S : x <= y

\* spec.traverse(order='post', deptype=types): depth first, every node
\* once, a node after the nodes reached from it; dependencies are taken
\* in the order of their names.  acc is [seq, seen].
RECURSIVE PostVisit(_, _, _, _), PostVisitAll(_, _, _, _)

PostVisit(g, n, types, acc) ==
    IF n \in acc.seen THEN acc
    ELSE LET below == PostVisitAll(g, dependencies(g, n, types), types,
                                   [seq |-> acc.seq, seen |-> acc.seen \cup {n}])
         IN  [seq |-> Append(below.seq, n), seen |-> below.seen]

PostVisitAll(g, kids, types, acc) ==
    IF kids = {} THEN acc
    ELSE PostVisitAll(g, kids \ {Min(kids)}, types,
                      PostVisit(g, Min(kids), types, acc))

\* spec.traverse(deptype=types), the default order: a node before the
\* nodes reached from it.
RECURSIVE PreVisit(_, _, _, _), PreVisitAll(_, _, _, _)

PreVisit(g, n, types, acc) ==
    IF n \in acc.seen THEN acc
    ELSE PreVisitAll(g, dependencies(g, n, types), types,
                     [seq |-> Append(acc.seq, n), seen |-> acc.seen \cup {n}])

PreVisitAll(g, kids, types, acc) ==
    IF kids = {} THEN acc
    ELSE PreVisitAll(g, kids \ {Min(kids)}, types,
                     PreVisit(g, Min(kids), types, acc))

NoneSeen == [seq |-> <<>>, seen |-> {}]

\* traverse(order=..., root=..., deptype=types) from node n.
traverse(g, n, order, root, types) ==
    LET all == IF order = "post" THEN PostVisit(g, n, types, NoneSeen).seq
               ELSE PreVisit(g, n, types, NoneSeen).seq
    IN  IF root THEN all ELSE SelectSeq(all, LAMBDA x : x # n)

Range(q) == {q[i] : i \in 1..Len(q)}

(***************************************************************************)
(* EnvironmentModifications: an ordered list of operations, applied in     *)
(* order to the environment.  A path variable's value is the list of its   *)
(* entries (the string joined with ':').                                   *)
(***************************************************************************)
EnvSet(name, value) == [op |-> "set", name |-> name, value |-> value]
EnvUnset(name) == [op |-> "unset", name |-> name]
EnvSetPath(name, elements) == [op |-> "set_path", name |-> name, value |-> elements]
EnvPrependPath(name, path) == [op |-> "prepend_path", name |-> name, value |-> path]
EnvAppendPath(name, path) == [op |-> "append_path", name |-> name, value |-> path]
EnvRemovePath(name, path) == [op |-> "remove_path", name |-> name, value |-> path]

EmptyEnviron == [n \in {} |-> <<>>]

\* The entries of a path variable (none when it is unset).
PathEntries(e, name) == IF name \in DOMAIN e THEN e[name] ELSE <<>>

Assign(e, name, value) ==
    [n \in DOMAIN e \cup {name} |-> IF n = name THEN value ELSE e[n]]

\* One operation executed on the environment e.
Execute(m, e) ==
    CASE m.op = "set" -> Assign(e, m.name, m.value)
      [] m.op = "unset" -> [n \in DOMAIN e \ {m.name} |-> e[n]]
      [] m.op = "set_path" -> Assign(e, m.name, m.value)
      [] m.op = "prepend_path" ->
            Assign(e, m.name, <<m.value>> \o PathEntries(e, m.name))
      [] m.op = "append_path" ->
            Assign(e, m.name, PathEntries(e, m.name) \o <<m.value>>)
      [] m.op = "remove_path" ->
            Assign(e, m.name,
                   SelectSeq(PathEntries(e, m.name), LAMBDA x : x # m.value))

\* env.apply_modifications()
RECURSIVE apply_modifications(_, _)
apply_modifications(ledger, e) ==
    IF ledger = <<>> THEN e
    ELSE apply_modifications(Tail(ledger), Execute(Head(ledger), e))

(***************************************************************************)
(* modifications_from_dependencies(spec, context)                          *)
(***************************************************************************)
\* A variant of deptype_and_method: the run context also follows test
\* edges, and the test context calls the build hook.
deptype_and_method_mixed(context) ==
    CASE context = "build" ->
            [deptype |-> {"build", "link", "test"},
             method |-> "setup_dependent_build_environment"]
      [] context = "run" ->
            [deptype |-> {"link", "run", "test"},
             method |-> "setup_dependent_run_environment"]
      [] context = "test" ->
            [deptype |-> {"link", "run", "test"},
             method |-> "setup_dependent_build_environment"]

\* Maps the context to deptype and method to be called.
deptype_and_method(context) ==
    CASE context = "build" ->
            [deptype |-> {"build", "link", "test"},
             method |-> "setup_dependent_build_environment"]
      [] context = "run" ->
            [deptype |-> {"link", "run"},
             method |-> "setup_dependent_run_environment"]
      [] context = "test" ->
            [deptype |-> {"link", "run", "test"},
             method |-> "setup_dependent_run_environment"]

\* A variant of ComposeOrder: the traversal includes the root and runs
\* in pre-order.
ComposeOrderPre(g, context) ==
    traverse(g, Root, "pre", TRUE, deptype_and_method(context).deptype)

\* for dspec in spec.traverse(order='post', root=False, deptype=deptype)
ComposeOrder(g, context) ==
    traverse(g, Root, "post", FALSE, deptype_and_method(context).deptype)

\* What the hook `method` of dependency d writes to the ledger: every
\* recipe of the model sets X to a value that names it and the hook.
HookOps(d, method) == <<EnvSet("X", [by |-> Name(d), hook |-> method])>>

\* The edge choices of the composed graphs: no edge, or one deptype.
ComposeEdgeChoices == {{}, {"build"}, {"link"}, {"run"}, {"test"}}

ComposeInit ==
    /\ graph \in [Edges -> ComposeEdgeChoices]
    /\ dep_context \in {"build", "run", "test"}
    /\ pkgcfg = <<>>
    /\ dpc = "compose"
    /\ todo = <<>>
    /\ calls = <<>>
    /\ env = <<>>
    /\ environ = EmptyEnviron
    /\ preserved = <<>>
    /\ out = <<>>

\* fork() plays no part in the composition.
ForkIdle ==
    /\ call = [fake |-> FALSE, dirty |-> FALSE, context |-> "build"]
    /\ pkgst = [log_path |-> TRUE, test_suite |-> TRUE,
                test_requires_compiler |-> FALSE]
    /\ host = [tty |-> FALSE, compiler_ok |-> TRUE, ccache |-> "off",
               log_on_disk |-> TRUE]
    /\ ppc = "idle"
    /\ cpc = "none"
    /\ cstep = 1
    /\ pipe = <<>>
    /\ pipe_closed = FALSE
    /\ input_stream = None
    /\ child_stdin = "devnull"
    /\ return_value = Unset
    /\ exc = Unset
    /\ child_result = Unset
    /\ outcome = NoOutcome
    /\ plog = <<>>
    /\ clog = <<>>

\* env = EnvironmentModifications(); deptype, method = ...[context]
ComposeBegin ==
    /\ dpc = "compose"
    /\ env' = <<>>
    /\ todo' = ComposeOrder(graph, dep_context)
    /\ dpc' = "visit"
    /\ UNCHANGED <<graph, pkgcfg, dep_context, calls, environ, preserved, out>>
    /\ UNCHANGED forkVars

\* The body of the loop for the next dspec: the dependency's module
\* variables, setup_dependent_package, then the hook on the ledger.
ComposeVisit ==
    /\ dpc = "visit"
    /\ todo # <<>>
    /\ LET dspec == Head(todo)
           method == deptype_and_method(dep_context).method
       IN  /\ calls' = calls \o
                <<[dep |-> dspec, method |-> "set_module_variables_for_package"],
                  [dep |-> dspec, method |-> "setup_dependent_package"],
                  [dep |-> dspec, method |-> method]>>
           /\ env' = env \o HookOps(dspec, method)
    /\ todo' = Tail(todo)
    /\ UNCHANGED <<graph, pkgcfg, dep_context, dpc, environ, preserved, out>>
    /\ UNCHANGED forkVars

\* return env
ComposeReturn ==
    /\ dpc = "visit"
    /\ todo = <<>>
    /\ dpc' = "composed"
    /\ UNCHANGED <<graph, pkgcfg, dep_context, todo, calls, env, environ, preserved, out>>
    /\ UNCHANGED forkVars

\* The caller applies the composed ledger to the environment.
ComposeApply ==
    /\ dpc = "composed"
    /\ environ' = apply_modifications(env, environ)
    /\ dpc' = "applied"
    /\ UNCHANGED <<graph, pkgcfg, dep_context, todo, calls, env, preserved, out>>
    /\ UNCHANGED forkVars

ComposeNext ==
    \/ ComposeBegin
    \/ ComposeVisit
    \/ ComposeReturn
    \/ ComposeApply

InitCompose == ForkIdle /\ ComposeInit

SpecCompose == InitCompose /\ [][ComposeNext]_vars

(***************************************************************************)
(* Reading the composition.                                                *)
(***************************************************************************)
\* The nodes reached from the nodes of S through edges of the types.
RECURSIVE Closure(_, _, _)
Closure(g, S, types) ==
    LET more == S \cup {v \in Nodes : \E u \in S : EdgeTypes(g, u, v) \cap types # {}}
    IN  IF more = S THEN S ELSE Closure(g, more, types)

\* The dependencies, direct or not, of node n through edges of the types.
ReachedFrom(g, n, types) ==
    Closure(g, {v \in Nodes : EdgeTypes(g, n, v) \cap types # {}}, types)

IsDependentHook(m) ==
    m \in {"setup_dependent_build_environment", "setup_dependent_run_environment"}

\* The positions in calls at which a dependency's environment hook runs.
HookCalls == {i \in 1..Len(calls) : IsDependentHook(calls[i].method)}

HookedDeps == {calls[i].dep : i \in HookCalls}

HookPos(d) == CHOOSE i \in HookCalls : calls[i].dep = d

Composed == dpc \in {"composed", "applied"}

BuildEdgeTypes == {"build", "link", "test"}

\* The graph is the chain a -> b -> c as far as the build context sees.
IsBuildChain ==
    /\ MaxNodes >= 3
    /\ dep_context = "build"
    /\ {e \in DOMAIN graph : graph[e] \cap BuildEdgeTypes # {}} = {<<1, 2>>, <<2, 3>>}

(***************************************************************************)
(* C8.  The composition never visits the root and visits in post-order: a  *)
(* dependency's hook runs only after the hooks of all dependencies reached *)
(* from it through the selected edge types, and once the composition has   *)
(* returned every dependency reached from the root was visited once.  For  *)
(* the chain a -> b -> c in build context c's hook runs before b's and     *)
(* X, which both set, has b's value once the ledger is applied.            *)
(***************************************************************************)
C8_PostOrderRootExcluded ==
    LET sel == deptype_and_method(dep_context).deptype IN
    /\ dpc # "idle" =>
        /\ \A i \in 1..Len(calls) : calls[i].dep # Root
        /\ \A i \in HookCalls :
              \A d \in ReachedFrom(graph, calls[i].dep, sel) :
                  \E j \in HookCalls : j < i /\ calls[j].dep = d
        /\ \A i, j \in HookCalls : calls[i].dep = calls[j].dep => i = j
        /\ Composed => HookedDeps = ReachedFrom(graph, Root, sel)
    /\ (IsBuildChain /\ Composed) =>
        /\ HookedDeps = {2, 3}
        /\ HookPos(3) < HookPos(2)
        /\ dpc = "applied" =>
              environ["X"] = [by |-> "b",
                              hook |-> "setup_dependent_build_environment"]

C8_Witness ==
    /\ IsBuildChain
    /\ dpc = "applied"
    /\ Len(env) = 2
    /\ environ["X"].by = "b"

(***************************************************************************)
(* C9.  build follows {build, link, test} edges and calls                  *)
(* setup_dependent_build_environment; run follows {link, run} and test     *)
(* follows {link, run, test}, both calling                                 *)
(* setup_dependent_run_environment.  Only that hook is invoked, only on    *)
(* dependencies reached from the root through edges of those types, and    *)
(* on every one of them by the time the composition returns.               *)
(***************************************************************************)
ClaimedEdgeTypes ==
    CASE dep_context = "build" -> {"build", "link", "test"}
      [] dep_context = "run" -> {"link", "run"}
      [] dep_context = "test" -> {"link", "run", "test"}

ClaimedHook ==
    CASE dep_context = "build" -> "setup_dependent_build_environment"
      [] dep_context = "run" -> "setup_dependent_run_environment"
      [] dep_context = "test" -> "setup_dependent_run_environment"

C9_EdgeTypesAndHookByContext ==
    dpc # "idle" =>
        /\ \A i \in HookCalls : calls[i].method = ClaimedHook
        /\ \A i \in 1..Len(calls) :
              calls[i].dep \in ReachedFrom(graph, Root, ClaimedEdgeTypes)
        /\ Composed => HookedDeps = ReachedFrom(graph, Root, ClaimedEdgeTypes)
        /\ \A i \in 1..Len(env) : env[i].value.hook = ClaimedHook

\* In run context the dependency behind a test edge is left out and the
\* one behind a run edge is visited.
C9_Witness ==
    /\ dep_context = "run"
    /\ graph[<<1, 2>>] = {"test"}
    /\ graph[<<1, 3>>] = {"run"}
    /\ Composed
    /\ HookedDeps = {3}
    /\ calls[Len(calls)].method = "setup_dependent_run_environment"

(***************************************************************************)
(* Paths are lists of components: <<"usr", "lib">> is /usr/lib and <<>>    *)
(* is /.  os.path.join(prefix, name) appends a component.                  *)
(***************************************************************************)
Join(prefix, name) == Append(prefix, name)

\* spack.util.environment: the system paths, and the directories of
\* binaries, headers and libraries right below them.
system_paths == {<<>>, <<"usr">>, <<"usr", "local">>}

system_dirs ==
    system_paths \cup
        {Join(p, sfx) : p \in system_paths,
                        sfx \in {"bin", "bin64", "include", "lib", "lib64"}}

is_system_path(path) == path \in system_dirs

filter_system_paths(paths) == SelectSeq(paths, LAMBDA x : ~is_system_path(x))

\* llnl.util.lang.dedupe: every element once, at its first place.
RECURSIVE dedupe(_)
dedupe(q) ==
    IF q = <<>> THEN <<>>
    ELSE LET front == dedupe(SubSeq(q, 1, Len(q) - 1))
             last == q[Len(q)]
         IN  IF last \in Range(front) THEN front ELSE Append(front, last)

(***************************************************************************)
(* The installed dependencies.  pkgcfg.profile[d] says what dependency d   *)
(* is like:                                                                *)
(*   "lib"  its own prefix, libraries in <prefix>/lib, no headers;         *)
(*   "tool" its own prefix, no libraries, headers in <prefix>/include;     *)
(*   "ext"  an external in the shared prefix /opt/ext: libraries found in  *)
(*          <prefix>/lib64 and in /usr/local, <prefix>/lib there too,      *)
(*          headers in <prefix>/include;                                   *)
(*   "sys"  an external in the system prefix /usr.                         *)
(* pkgcfg.fs says whether the optional directories (the bin directories    *)
(* of "lib" and "tool", the case-insensitive wrapper directories) exist.   *)
(***************************************************************************)
Profiles == {"lib", "tool", "ext", "sys"}

Prefix(cfg, n) ==
    IF n = Root
    THEN (IF cfg.root_prefix = "usr" THEN <<"usr">> ELSE <<"opt", Name(n)>>)
    ELSE CASE cfg.profile[n] = "ext" -> <<"opt", "ext">>
           [] cfg.profile[n] = "sys" -> <<"usr">>
           [] OTHER -> <<"opt", Name(n)>>

\* query.libs.directories ([] stands for NoLibrariesError)
LibDirectories(cfg, n) ==
    CASE cfg.profile[n] = "lib" -> <<Join(Prefix(cfg, n), "lib")>>
      [] cfg.profile[n] = "tool" -> <<>>
      [] cfg.profile[n] = "ext" -> <<Join(Prefix(cfg, n), "lib64"), <<"usr", "local">>>>
      [] cfg.profile[n] = "sys" -> <<<<"usr", "lib">>>>

\* query.headers.directories ([] stands for NoHeadersError)
HeaderDirectories(cfg, n) ==
    CASE cfg.profile[n] = "lib" -> <<>>
      [] OTHER -> <<Join(Prefix(cfg, n), "include")>>

\* The directories below the prefix of dependency n that exist.
SubDirs(cfg, n) ==
    CASE cfg.profile[n] = "lib" ->
            {<<"lib">>, <<"lib", "pkgconfig">>} \cup (IF cfg.fs THEN {<<"bin">>} ELSE {})
      [] cfg.profile[n] = "tool" ->
            {<<"include">>} \cup (IF cfg.fs THEN {<<"bin">>} ELSE {})
      [] cfg.profile[n] = "ext" ->
            {<<"lib">>, <<"lib64">>, <<"lib64", "pkgconfig">>, <<"include">>}
      [] cfg.profile[n] = "sys" ->
            {<<"lib">>, <<"lib64">>, <<"bin">>, <<"include">>}

\* spack.paths.build_env_path and the compiler's name
build_env_path == <<"spack", "env">>

compiler_name == "gcc"

\* os.path.isdir(path)
isdir(cfg, path) ==
    \/ \E n \in Deps :
          LET prefix == Prefix(cfg, n) IN
          /\ Len(path) > Len(prefix)
          /\ \A i \in 1..Len(prefix) : path[i] = prefix[i]
          /\ SubSeq(path, Len(prefix) + 1, Len(path)) \in SubDirs(cfg, n)
    \/ cfg.fs /\ path \in {Join(build_env_path, "case-insensitive"),
                           Join(Join(build_env_path, compiler_name),
                                "case-insensitive")}

Reverse(q) == [i \in 1..Len(q) |-> q[Len(q) + 1 - i]]

RECURSIVE Ascending(_)
Ascending(S) == IF S = {} THEN <<>> ELSE <<Min(S)>> \o Ascending(S \ {Min(S)})

\* The orders in which Python may iterate over a set of specs.  It goes by
\* the hashes of the elements and the history of the set; the model takes
\* the two directions of the node order, which are all the orders of a set
\* of two.
Orders(S) == {Ascending(S), Reverse(Ascending(S))}

(***************************************************************************)
(* set_build_environment_variables(pkg, env, dirty)                        *)
(***************************************************************************)
\* build_deps = set(pkg.spec.dependencies(deptype=('build', 'test')))
build_deps(g) == dependencies(g, Root, {"build", "test"})

\* link_deps = set(pkg.spec.traverse(root=False, deptype=('link')))
link_deps(g) == Range(traverse(g, Root, "pre", FALSE, {"link"}))

build_link_deps(g) == build_deps(g) \cup link_deps(g)

\* The three sets are three objects: each is iterated in an order of its
\* own.  ord names the order of each.
IterationOrders(g) ==
    [link_deps : Orders(link_deps(g)),
     build_deps : Orders(build_deps(g)),
     build_link_deps : Orders(build_link_deps(g))]

\* A variant of get_rpath_deps: the immediate link dependencies, whatever
\* the recipe says.
get_rpath_deps_immediate(g, cfg) == dependencies(g, Root, {"link"})

\* get_rpath_deps(pkg): immediate or transitive, as the recipe says.
get_rpath_deps(g, cfg) ==
    IF cfg.transitive_rpaths
    THEN Range(traverse(g, Root, "pre", FALSE, {"link"}))
    ELSE dependencies(g, Root, {"link"})

\* The lib and lib64 of the dependency's prefix that exist.
DefaultLibDirs(cfg, dep) ==
    SelectSeq(<<Join(Prefix(cfg, dep), "lib"), Join(Prefix(cfg, dep), "lib64")>>,
              LAMBDA d : isdir(cfg, d))

\* dep_link_dirs: the directories of the libraries found, then the
\* default ones.
DepLinkDirs(cfg, dep) == LibDirectories(cfg, dep) \o DefaultLibDirs(cfg, dep)

\* A variant of LinkLoop: the headers of the build dependencies are
\* collected too.
RECURSIVE LinkLoopWithBuildHeaders(_, _, _, _)
LinkLoopWithBuildHeaders(g, cfg, ds, acc) ==
    IF ds = <<>>
    THEN [acc EXCEPT !.include_dirs =
            @ \o (IF build_deps(g) = {} THEN <<>>
                  ELSE HeaderDirectories(cfg, Min(build_deps(g))))]
    ELSE LET dep == Head(ds) IN
         IF is_system_path(Prefix(cfg, dep))
         THEN LinkLoopWithBuildHeaders(g, cfg, Tail(ds), acc)
         ELSE LinkLoopWithBuildHeaders(g, cfg, Tail(ds),
                [link_dirs |-> acc.link_dirs \o DepLinkDirs(cfg, dep),
                 rpath_dirs |-> IF dep \in get_rpath_deps(g, cfg)
                                THEN acc.rpath_dirs \o DepLinkDirs(cfg, dep)
                                ELSE acc.rpath_dirs,
                 include_dirs |-> acc.include_dirs \o HeaderDirectories(cfg, dep)])

\* for dep in link_deps: ... (lines 332-354), over the dependencies ds in
\* the order of iteration; acc is [link_dirs, include_dirs, rpath_dirs].
RECURSIVE LinkLoop(_, _, _, _)
LinkLoop(g, cfg, ds, acc) ==
    IF ds = <<>> THEN acc
    ELSE LET dep == Head(ds) IN
         IF is_system_path(Prefix(cfg, dep))
         THEN LinkLoop(g, cfg, Tail(ds), acc)
         ELSE LinkLoop(g, cfg, Tail(ds),
                [link_dirs |-> acc.link_dirs \o DepLinkDirs(cfg, dep),
                 rpath_dirs |-> IF dep \in get_rpath_deps(g, cfg)
                                THEN acc.rpath_dirs \o DepLinkDirs(cfg, dep)
                                ELSE acc.rpath_dirs,
                 include_dirs |-> acc.include_dirs \o HeaderDirectories(cfg, dep)])

\* A variant of Candidates: the package's own lib and lib64 are added
\* after the dependencies' directories.
CandidatesOwnLast(g, cfg, ord) ==
    LET found == LinkLoop(g, cfg, ord.link_deps,
                          [link_dirs |-> <<>>, include_dirs |-> <<>>,
                           rpath_dirs |-> <<>>])
    IN  [found EXCEPT !.rpath_dirs = @ \o <<Join(Prefix(cfg, Root), "lib"),
                                            Join(Prefix(cfg, Root), "lib64")>>]

\* The three lists as collected, before filtering and de-duplication.
\* The package's own lib and lib64 open the RPATH list unconditionally.
Candidates(g, cfg, ord) ==
    LinkLoop(g, cfg, ord.link_deps,
             [link_dirs |-> <<>>,
              include_dirs |-> <<>>,
              rpath_dirs |-> <<Join(Prefix(cfg, Root), "lib"),
                               Join(Prefix(cfg, Root), "lib64")>>])

\* A variant of Cleaned: the system paths are filtered out and nothing
\* else.
CleanedKeepingRepeats(dirs) == filter_system_paths(dirs)

\* list(dedupe(filter_system_paths(dirs)))
Cleaned(dirs) == dedupe(filter_system_paths(dirs))

RECURSIVE Flatten(_)
Flatten(qs) == IF qs = <<>> THEN <<>> ELSE Head(qs) \o Flatten(Tail(qs))

Prefixes(cfg, ds) == [i \in 1..Len(ds) |-> Prefix(cfg, ds[i])]

\* build_prefixes: the build dependencies, then for each of them its
\* run-time dependencies (the traversal starts with the build dependency
\* itself); system paths filtered out.
build_prefixes(g, cfg, ord) ==
    LET bd == ord.build_deps
        run == Flatten([i \in 1..Len(bd) |->
                            traverse(g, bd[i], "pre", TRUE, {"run"})])
    IN  filter_system_paths(Prefixes(cfg, bd) \o Prefixes(cfg, run))

\* A variant of build_link_prefixes: the prefixes as they are.
build_link_prefixes_unfiltered(g, cfg, ord) ==
    Prefixes(cfg, ord.build_link_deps)

build_link_prefixes(g, cfg, ord) ==
    filter_system_paths(Prefixes(cfg, ord.build_link_deps))

\* The sub-directories named of each prefix, in order, that exist.
ExistingBelow(cfg, prefixes, names) ==
    SelectSeq(Flatten([i \in 1..Len(prefixes) |->
                          [j \in 1..Len(names) |-> prefixes[i] \o names[j]]]),
              LAMBDA d : isdir(cfg, d))

PrependAll(name, dirs) == [i \in 1..Len(dirs) |-> EnvPrependPath(name, dirs[i])]

\* env_paths: the wrapper directory and the compiler's own, each followed
\* by its case-insensitive directory when there is one.
env_paths(cfg) ==
    LET items == <<build_env_path, Join(build_env_path, compiler_name)>>
    IN  Flatten([i \in 1..Len(items) |->
                    <<items[i]>> \o
                    (IF isdir(cfg, Join(items[i], "case-insensitive"))
                     THEN <<Join(items[i], "case-insensitive")>> ELSE <<>>)])

\* A variant of PathOps: the wrapper directories are prepended before
\* the bin directories of the dependencies.
PathOpsWrappersFirst(g, cfg, ord) ==
       PrependAll("PATH", env_paths(cfg))
    \o PrependAll("PATH", ExistingBelow(cfg, build_prefixes(g, cfg, ord),
                                        <<<<"bin">>, <<"bin64">>>>))

\* The bin and bin64 of the build prefixes that exist are prepended to
\* PATH, then the wrapper directories.
PathOps(g, cfg, ord) ==
       PrependAll("PATH", ExistingBelow(cfg, build_prefixes(g, cfg, ord),
                                        <<<<"bin">>, <<"bin64">>>>))
    \o PrependAll("PATH", env_paths(cfg))

\* The operations the function adds to the ledger, in order.  The compiler
\* of the model has no environment of its own and no extra rpaths, and
\* config:debug is off.
set_build_environment_variables(g, cfg, ord) ==
    LET found == Candidates(g, cfg, ord) IN
       <<EnvSet("SPACK_LINK_DIRS", Cleaned(found.link_dirs)),
         EnvSet("SPACK_INCLUDE_DIRS", Cleaned(found.include_dirs)),
         EnvSet("SPACK_RPATH_DIRS", Cleaned(found.rpath_dirs)),
         EnvSetPath("CMAKE_PREFIX_PATH", build_link_prefixes(g, cfg, ord))>>
    \o PathOps(g, cfg, ord)
    \o <<EnvSetPath("SPACK_ENV_PATH", env_paths(cfg)),
         EnvSet("SPACK_SHORT_SPEC", Name(Root)),
         EnvSet("SPACK_DEBUG_LOG_ID", Name(Root)),
         EnvSet("SPACK_DEBUG_LOG_DIR", "spack_working_dir")>>
    \o (IF host.ccache # "off"
        THEN <<EnvSet("SPACK_CCACHE_BINARY", "ccache")>> ELSE <<>>)
    \o PrependAll("PKG_CONFIG_PATH",
                  ExistingBelow(cfg, build_link_prefixes(g, cfg, ord),
                                <<<<"lib", "pkgconfig">>, <<"lib64", "pkgconfig">>,
                                  <<"share", "pkgconfig">>>>))

(***************************************************************************)
(* The synthesis, run on every small DAG of installed dependencies.  An    *)
(* edge from the root is a build or a link edge; an edge between           *)
(* dependencies is a link and run edge, from a dependency to the next      *)
(* one.  A node no edge leads to is not part of the DAG: such nodes are    *)
(* the last ones and have no profile of their own.                         *)
(***************************************************************************)
RootEdgeChoices == {{}, {"build"}, {"link"}}

DepEdgeChoices == {{}, {"link", "run"}}

InitialPath == <<<<"usr", "bin">>, <<"bin">>>>

\* The nodes of g that are part of the DAG are the first k: each of them
\* has an edge coming in, and no edge touches the others.
InDag(g, k) ==
    \A v \in Deps :
        IF v <= k THEN \E u \in 1..(v - 1) : g[<<u, v>>] # {}
        ELSE \A e \in Edges : (e[1] = v \/ e[2] = v) => g[e] = {}

BuildEnvInit ==
    /\ graph \in {g \in [Edges -> RootEdgeChoices \cup DepEdgeChoices] :
                    /\ \A e \in Edges :
                          g[e] \in (CASE e[1] = Root -> RootEdgeChoices
                                     [] e[2] = e[1] + 1 -> DepEdgeChoices
                                     [] OTHER -> {{}})
                    /\ \E k \in Nodes : InDag(g, k)}
    /\ pkgcfg \in {c \in [profile : [Deps -> Profiles],
                           root_prefix : {"own", "usr"},
                           transitive_rpaths : BOOLEAN,
                           fs : BOOLEAN] :
                      \A v \in Deps :
                          (\A u \in 1..(v - 1) : graph[<<u, v>>] = {})
                              => c.profile[v] = "lib"}
    /\ dep_context = "build"
    /\ dpc = "synthesize"
    /\ todo = <<>>
    /\ calls = <<>>
    /\ env = <<>>
    /\ environ = [n \in {"PATH"} |-> InitialPath]
    /\ preserved = <<>>
    /\ out = <<>>

\* env = EnvironmentModifications(); set_build_environment_variables(pkg, env, dirty)
SynthBuildEnv ==
    /\ dpc = "synthesize"
    /\ \E ord \in IterationOrders(graph) :
          env' = set_build_environment_variables(graph, pkgcfg, ord)
    /\ dpc' = "synthesized"
    /\ UNCHANGED <<graph, pkgcfg, dep_context, todo, calls, environ, preserved, out>>
    /\ UNCHANGED forkVars

\* env.apply_modifications()
SynthApply ==
    /\ dpc = "synthesized"
    /\ environ' = apply_modifications(env, environ)
    /\ dpc' = "applied"
    /\ UNCHANGED <<graph, pkgcfg, dep_context, todo, calls, env, preserved, out>>
    /\ UNCHANGED forkVars

BuildEnvNext ==
    \/ SynthBuildEnv
    \/ SynthApply

InitBuildEnv == ForkIdle /\ BuildEnvInit

SpecBuildEnv == InitBuildEnv /\ [][BuildEnvNext]_vars

(***************************************************************************)
(* The synthesized ledger and the environment it yields.                   *)
(***************************************************************************)
Synthesized == dpc \in {"synthesized", "applied"}

\* The value the ledger sets the variable to.
LedgerValue(name) ==
    LET i == CHOOSE i \in 1..Len(env) :
                 env[i].name = name /\ env[i].op \in {"set", "set_path"}
    IN  env[i].value

\* The directories the ledger prepends to the path variable, in order.
LedgerPrepends(name) ==
    LET ops == SelectSeq(env, LAMBDA m : m.name = name /\ m.op = "prepend_path")
    IN  [i \in 1..Len(ops) |-> ops[i].value]

\* The node has exactly one build-only dependency d, a tool with headers
\* in d/include and no libraries, and exactly one link dependency l, with
\* a library in l/lib.
BuildAndLinkScenario(d, l) ==
    /\ d # l
    /\ build_deps(graph) = {d}
    /\ link_deps(graph) = {l}
    /\ graph[<<Root, l>>] = {"link"}
    /\ pkgcfg.profile[d] = "tool"
    /\ pkgcfg.profile[l] = "lib"

OwnLibDirs == <<Join(Prefix(pkgcfg, Root), "lib"), Join(Prefix(pkgcfg, Root), "lib64")>>

BinOf(d) == Join(Prefix(pkgcfg, d), "bin")

LibOf(l) == Join(Prefix(pkgcfg, l), "lib")

IncludeOf(d) == Join(Prefix(pkgcfg, d), "include")

IsLinkChain(b, c) ==
    /\ b # c
    /\ "link" \in EdgeTypes(graph, Root, b)
    /\ "link" \in EdgeTypes(graph, b, c)
    /\ "link" \notin EdgeTypes(graph, Root, c)
    /\ pkgcfg.profile[c] = "lib"
    /\ isdir(pkgcfg, LibOf(c))
    /\ ~is_system_path(LibOf(c))

C11_TransitiveRpathToggle ==
    Synthesized =>
        \A b, c \in Deps :
            IsLinkChain(b, c) =>
                /\ Has(LedgerValue("SPACK_LINK_DIRS"), LibOf(c))
                /\ (pkgcfg.transitive_rpaths <=>
                        Has(LedgerValue("SPACK_RPATH_DIRS"), LibOf(c)))

C11_Witness ==
    /\ dpc = "applied"
    /\ pkgcfg.transitive_rpaths
    /\ \E b, c \in Deps :
          /\ IsLinkChain(b, c)
          /\ Has(environ["SPACK_RPATH_DIRS"], LibOf(c))
          /\ Has(environ["SPACK_LINK_DIRS"], LibOf(c))

\* The statement as the specification makes it: own lib and lib64 are the
\* first two entries whatever the prefix is.
C12_OwnLibDirsAlwaysFirst ==
    Synthesized =>
        /\ Len(LedgerValue("SPACK_RPATH_DIRS")) >= 2
        /\ SubSeq(LedgerValue("SPACK_RPATH_DIRS"), 1, 2) = OwnLibDirs

(***************************************************************************)
(* C12.  SPACK_RPATH_DIRS opens with the package's own <prefix>/lib and    *)
(* <prefix>/lib64, whether or not those directories exist, when they are   *)
(* not system directories; when the prefix is a system path (/usr), they   *)
(* are system directories and are filtered out with the others.            *)
(***************************************************************************)
C12_OwnLibDirsFirstUnlessSystem ==
    Synthesized =>
        LET rpath == LedgerValue("SPACK_RPATH_DIRS")
            own == filter_system_paths(OwnLibDirs)
        IN  /\ Len(rpath) >= Len(own)
            /\ SubSeq(rpath, 1, Len(own)) = own
            /\ (~is_system_path(Prefix(pkgcfg, Root)) => own = OwnLibDirs)
            /\ \A i \in 1..Len(OwnLibDirs) :
                  is_system_path(OwnLibDirs[i]) => ~Has(rpath, OwnLibDirs[i])

C12_Witness ==
    /\ dpc = "applied"
    /\ pkgcfg.root_prefix = "own"
    /\ ~isdir(pkgcfg, OwnLibDirs[1])
    /\ link_deps(graph) # {}
    /\ Len(environ["SPACK_RPATH_DIRS"]) > 2
    /\ SubSeq(environ["SPACK_RPATH_DIRS"], 1, 2) = OwnLibDirs

(***************************************************************************)
(* C13.  In SPACK_LINK_DIRS, SPACK_INCLUDE_DIRS and SPACK_RPATH_DIRS a     *)
(* directory collected more than once (from two dependencies, or twice     *)
(* from one) appears exactly once, at the place of its first occurrence    *)
(* among the candidates that pass the system-path filter, and distinct     *)
(* directories keep their relative order.                                  *)
(***************************************************************************)
NoRepeats(q) == \A i, j \in 1..Len(q) : q[i] = q[j] => i = j

\* kept holds every element of inp once, ordered by first occurrence in inp.
FirstOccurrences(kept, inp) ==
    /\ NoRepeats(kept)
    /\ Range(kept) = Range(inp)
    /\ \A i \in 1..(Len(kept) - 1) : Pos(inp, kept[i]) < Pos(inp, kept[i + 1])

\* The directory is collected at two places of the list.
Repeated(inp, d) == \E i, j \in 1..Len(inp) : i # j /\ inp[i] = d /\ inp[j] = d

\* The link dependencies iterated in order o, whatever the orders of the
\* other two sets.
LinkOrder(o) ==
    [link_deps |-> o,
     build_deps |-> Ascending(build_deps(graph)),
     build_link_deps |-> Ascending(build_link_deps(graph))]

\* The three lists are those of the candidates collected in order ord.
SynthesizedFrom(ord) ==
    LET found == Candidates(graph, pkgcfg, ord) IN
    /\ FirstOccurrences(LedgerValue("SPACK_LINK_DIRS"),
                        filter_system_paths(found.link_dirs))
    /\ FirstOccurrences(LedgerValue("SPACK_INCLUDE_DIRS"),
                        filter_system_paths(found.include_dirs))
    /\ FirstOccurrences(LedgerValue("SPACK_RPATH_DIRS"),
                        filter_system_paths(found.rpath_dirs))

C13_DedupeFirstSeenOrder ==
    Synthesized =>
        /\ \E o \in Orders(link_deps(graph)) : SynthesizedFrom(LinkOrder(o))
        /\ NoRepeats(LedgerValue("SPACK_LINK_DIRS"))
        /\ NoRepeats(LedgerValue("SPACK_INCLUDE_DIRS"))
        /\ NoRepeats(LedgerValue("SPACK_RPATH_DIRS"))

\* Two link dependencies installed in one prefix contribute the same
\* library directories, each of them more than once, with another
\* directory collected between two occurrences.
C13_Witness ==
    /\ dpc = "applied"
    /\ \E d1, d2 \in link_deps(graph) :
          /\ d1 # d2
          /\ pkgcfg.profile[d1] = "ext"
          /\ pkgcfg.profile[d2] = "ext"
    /\ \E o \in Orders(link_deps(graph)) :
          LET ord == LinkOrder(o)
              inp == filter_system_paths(Candidates(graph, pkgcfg, ord).link_dirs) IN
          /\ environ["SPACK_LINK_DIRS"] = dedupe(inp)
          /\ \E i, j \in 1..Len(inp) : i + 1 < j /\ inp[i] = inp[j] /\ inp[i + 1] # inp[i]
          /\ Len(environ["SPACK_LINK_DIRS"]) = 2
          /\ Len(inp) = 6
          /\ Repeated(Candidates(graph, pkgcfg, ord).rpath_dirs, environ["SPACK_RPATH_DIRS"][3])

(***************************************************************************)
(* C14.  None of the system paths /, /usr and /usr/local is an entry of    *)
(* the synthesized SPACK_LINK_DIRS, SPACK_RPATH_DIRS or CMAKE_PREFIX_PATH, *)
(* also when the prefix of a dependency, or a library directory it         *)
(* reports, is one of them.                                                *)
(***************************************************************************)
C14_NoSystemPathSynthesized ==
    Synthesized =>
        \A p \in system_paths :
            /\ ~Has(LedgerValue("SPACK_LINK_DIRS"), p)
            /\ ~Has(LedgerValue("SPACK_RPATH_DIRS"), p)
            /\ ~Has(LedgerValue("CMAKE_PREFIX_PATH"), p)

\* A dependency in the prefix /usr and a link dependency that reports
\* /usr/local among its library directories, next to entries that stay.
C14_Witness ==
    /\ dpc = "applied"
    /\ \E d, l \in Deps :
          /\ d \in build_link_deps(graph)
          /\ Prefix(pkgcfg, d) \in system_paths
          /\ l \in link_deps(graph)
          /\ \E i \in 1..Len(LibDirectories(pkgcfg, l)) :
                LibDirectories(pkgcfg, l)[i] \in system_paths
          /\ environ["CMAKE_PREFIX_PATH"] = <<Prefix(pkgcfg, l)>>
          /\ Has(environ["SPACK_LINK_DIRS"], Join(Prefix(pkgcfg, l), "lib64"))
          /\ \A p \in system_paths : ~Has(environ["SPACK_RPATH_DIRS"], p)

(***************************************************************************)
(* C15.  In the PATH that results from applying the ledger written by      *)
(* set_build_environment_variables, every compiler-wrapper directory (the  *)
(* wrapper directory, its compiler-name subdirectory, the case-insensitive *)
(* directories) comes before every bin or bin64 directory of a dependency  *)
(* and before every entry PATH had; the prepended entries stand at the     *)
(* front in the reverse of the order in which they were applied.           *)
(***************************************************************************)
WrapperDirs ==
    {build_env_path, Join(build_env_path, compiler_name),
     Join(build_env_path, "case-insensitive"),
     Join(Join(build_env_path, compiler_name), "case-insensitive")}

\* A bin or bin64 directory of a dependency.
IsDepBin(d) ==
    \E n \in Deps : d \in {Join(Prefix(pkgcfg, n), "bin"), Join(Prefix(pkgcfg, n), "bin64")}

C15_WrappersFirstInPath ==
    dpc = "applied" =>
        LET path == environ["PATH"] IN
        /\ path = Reverse(LedgerPrepends("PATH")) \o InitialPath
        /\ \A w \in Range(env_paths(pkgcfg)) : Has(path, w)
        /\ \A i, j \in 1..Len(path) :
              /\ path[i] \in WrapperDirs
              /\ path[j] \notin WrapperDirs
              => /\ i < j
                 /\ IsDepBin(path[j]) \/ Has(InitialPath, path[j])

C15_Witness ==
    /\ dpc = "applied"
    /\ Len(environ["PATH"]) >= 7
    /\ environ["PATH"][1] = Join(Join(build_env_path, compiler_name), "case-insensitive")
    /\ environ["PATH"][4] = build_env_path
    /\ IsDepBin(environ["PATH"][5])
    /\ \E i \in 6..Len(environ["PATH"]) :
          IsDepBin(environ["PATH"][i]) /\ environ["PATH"][i] # environ["PATH"][5]
    /\ SubSeq(environ["PATH"], Len(environ["PATH"]) - 1, Len(environ["PATH"])) = InitialPath

\* env.extend(other): the operations of the other ledger, in order, after
\* those the ledger holds.
Extend(ledger, other) == ledger \o other

(***************************************************************************)
(* setup_package(pkg, dirty, context) and os.environ.  The steps are those *)
(* of SetupSteps, with the loading of modules spelt out; the ledger grows  *)
(* step by step and is applied at the end, while clean_environment() and   *)
(* the modules change os.environ at once.                                  *)
(***************************************************************************)
\* with preserve_environment('CC', 'CXX', 'FC', 'F77')
PreservedNames == {"CC", "CXX", "FC", "F77"}

LibraryPathVars ==
    <<"LD_LIBRARY_PATH", "LIBRARY_PATH", "CPATH", "LD_RUN_PATH",
      "DYLD_LIBRARY_PATH", "DYLD_FALLBACK_LIBRARY_PATH">>

build_system_vars ==
    <<"CC", "CFLAGS", "CPP", "CPPFLAGS", "CXX", "CCC", "CXXFLAGS", "CXXCPP",
      "F77", "FFLAGS", "FLIBS", "FC", "FCFLAGS", "FCLIBS", "LDFLAGS", "LIBS">>

mpi_vars == <<"MPICC", "MPICXX", "MPIFC", "MPIF77", "MPIF90">>

\* The names of variables with PKGCONF in them.
PkgconfNames == {"PKGCONF_DIR"}

\* for varname in os.environ.keys(): the model has one such name.
NamesInOrder(S) == IF S = {} THEN <<>> ELSE <<CHOOSE n \in S : TRUE>>

Unsets(names) == [i \in 1..Len(names) |-> EnvUnset(names[i])]

\* '/macports/' in p
InMacports(p) == \E i \in 1..(Len(p) - 1) : p[i] = "macports"

\* The ledger clean_environment() fills, given os.environ.
CleanLedger(cfg, e) ==
       Unsets(LibraryPathVars)
    \o (IF cfg.on_cray
        THEN <<EnvUnset("CRAY_LD_LIBRARY_PATH")>>
                \o Unsets(NamesInOrder(PkgconfNames \cap DOMAIN e))
        ELSE <<>>)
    \o Unsets(build_system_vars)
    \o Unsets(mpi_vars)
    \o (IF cfg.build_lang THEN <<EnvSet("LC_ALL", "build_lang")>> ELSE <<>>)
    \o (LET path == SelectSeq(PathEntries(e, "PATH"), InMacports)
        IN  [i \in 1..Len(path) |-> EnvRemovePath("PATH", path[i])])

\* clean_environment(): the ledger is applied at once.
clean_environment(cfg, e) == apply_modifications(CleanLedger(cfg, e), e)

\* A variant of LoadModulesSteps: the external modules are loaded after
\* the block is left.
LoadModulesStepsExternalOutside(need_compiler, cfg) ==
       <<"preserve_environment">>
    \o (IF need_compiler /\ cfg.compiler_module
        THEN <<"load_compiler_modules">> ELSE <<>>)
    \o <<"unload_cray_libsci">>
    \o (IF cfg.target_module THEN <<"load_target_module">> ELSE <<>>)
    \o <<"restore_environment", "load_external_modules">>

\* The block of lines 759-780.
LoadModulesSteps(need_compiler, cfg) ==
       <<"preserve_environment">>
    \o (IF need_compiler /\ cfg.compiler_module
        THEN <<"load_compiler_modules">> ELSE <<>>)
    \o <<"unload_cray_libsci">>
    \o (IF cfg.target_module THEN <<"load_target_module">> ELSE <<>>)
    \o <<"load_external_modules", "restore_environment">>

RECURSIVE ExpandSteps(_, _, _)
ExpandSteps(steps, need_compiler, cfg) ==
    IF steps = <<>> THEN <<>>
    ELSE (IF Head(steps) = "load_modules"
          THEN LoadModulesSteps(need_compiler, cfg)
          ELSE <<Head(steps)>>)
         \o ExpandSteps(Tail(steps), need_compiler, cfg)

ModuleSteps ==
    {"load_compiler_modules", "unload_cray_libsci", "load_target_module",
     "load_external_modules"}

\* What a module command may do to os.environ, by number.
ModuleEffect(i, e) ==
    CASE i = 1 -> e
      [] i = 2 -> Assign(Assign(e, "LD_LIBRARY_PATH", "module"), "CC", "module")
      [] i = 3 -> Assign([n \in DOMAIN e \ {"FC"} |-> e[n]], "CXX", "module")

ModuleEffectIds == 1..3

\* What the hooks of recipes may add to the ledger, by number.
RecipeOps(i) ==
    CASE i = 1 -> <<>>
      [] i = 2 -> <<EnvUnset("LD_LIBRARY_PATH")>>
      [] i = 3 -> <<EnvSet("CC", "recipe"), EnvPrependPath("PATH", <<"opt", "dep", "bin">>)>>

RecipeOpIds == 1..3

HookSteps ==
    {"modifications_from_dependencies", "setup_build_environment",
     "environment_modifications_for_spec"}

\* set_compiler_environment_variables(pkg, env), for a compiler that has
\* the four executables and a recipe that injects no flags;
\* config:shared_linking is not 'rpath'.
set_compiler_environment_variables ==
    <<EnvSet("SPACK_CC", "compiler"), EnvSet("CC", "wrapper"),
      EnvSet("SPACK_CXX", "compiler"), EnvSet("CXX", "wrapper"),
      EnvSet("SPACK_F77", "compiler"), EnvSet("F77", "wrapper"),
      EnvSet("SPACK_FC", "compiler"), EnvSet("FC", "wrapper"),
      EnvSet("SPACK_CC_RPATH_ARG", "cc_rpath_arg"),
      EnvSet("SPACK_CXX_RPATH_ARG", "cxx_rpath_arg"),
      EnvSet("SPACK_F77_RPATH_ARG", "f77_rpath_arg"),
      EnvSet("SPACK_FC_RPATH_ARG", "fc_rpath_arg"),
      EnvSet("SPACK_LINKER_ARG", "linker_arg"),
      EnvSet("SPACK_DTAGS_TO_STRIP", "disable_new_dtags"),
      EnvSet("SPACK_DTAGS_TO_ADD", "enable_new_dtags"),
      EnvSet("SPACK_TARGET_ARGS", "isa_arg"),
      EnvSet("SPACK_COMPILER_SPEC", "compiler_spec"),
      EnvSet("SPACK_SYSTEM_DIRS", "system_dirs")>>

\* The package set up: one build dependency, a tool installed in a prefix
\* of its own with none of the optional directories.
SetupGraph == [e \in Edges |-> IF e = <<Root, 2>> THEN {"build"} ELSE {}]

SetupProfile == [v \in Deps |-> "tool"]

\* What the other steps add to the ledger; ord is the order in which the
\* sets of dependencies are iterated.
LedgerOpsOf(step, ord) ==
    CASE step = "set_compiler_environment_variables" ->
            set_compiler_environment_variables
      [] step = "set_build_environment_variables" ->
            set_build_environment_variables(graph, pkgcfg, ord)
      [] step = "prepend_path" -> <<EnvPrependPath("PATH", <<".">>)>>
      [] step = "implicit_rpaths" ->
            <<EnvSet("SPACK_COMPILER_IMPLICIT_RPATHS", "implicit_rpaths")>>
      [] OTHER -> <<>>

LedgerSteps ==
    {"set_compiler_environment_variables", "set_build_environment_variables",
     "setup_platform_environment", "set_module_variables_for_package",
     "prepend_path", "implicit_rpaths", "validate"}

\* The environments setup_package() may find, by number.
Ambient(i) ==
    CASE i = 1 -> [n \in {"PATH"} |-> <<<<"usr", "bin">>>>]
      [] i = 2 -> [n \in {"PATH", "LD_LIBRARY_PATH", "CC", "MPICC", "LC_ALL",
                          "CRAY_LD_LIBRARY_PATH", "PKGCONF_DIR"} |->
                      IF n = "PATH"
                      THEN <<<<"opt", "macports", "bin">>, <<"usr", "bin">>,
                             <<"opt", "macports", "bin">>>>
                      ELSE "user"]
      [] i = 3 -> [n \in {"PATH", "FC", "CPATH", "F77"} |->
                      IF n = "PATH" THEN <<<<"usr", "bin">>>> ELSE "user"]

AmbientIds == 1..3

Event(name, arg) == [ev |-> name, arg |-> arg]

SetupInit ==
    /\ call \in [fake : {FALSE}, dirty : BOOLEAN, context : {"build", "test"}]
    /\ pkgst \in [log_path : {TRUE}, test_suite : {TRUE},
                  test_requires_compiler : BOOLEAN]
    /\ host = [tty |-> FALSE, compiler_ok |-> TRUE, ccache |-> "off",
               log_on_disk |-> TRUE]
    /\ ppc = "idle"
    /\ cpc = "none"
    /\ cstep = 1
    /\ pipe = <<>>
    /\ pipe_closed = FALSE
    /\ input_stream = None
    /\ child_stdin = "devnull"
    /\ return_value = Unset
    /\ exc = Unset
    /\ child_result = Unset
    /\ outcome = NoOutcome
    /\ plog = <<>>
    /\ clog = <<>>
    /\ graph = SetupGraph
    /\ pkgcfg \in [ambient : AmbientIds, on_cray : BOOLEAN, build_lang : BOOLEAN,
                   compiler_module : BOOLEAN, target_module : BOOLEAN,
                   profile : {SetupProfile}, root_prefix : {"own"},
                   transitive_rpaths : {TRUE}, fs : {FALSE}]
    /\ dep_context = call.context
    /\ dpc = "setup"
    /\ todo = ExpandSteps(Steps,
                          NeedCompiler(call.context, pkgst.test_requires_compiler),
                          pkgcfg)
    /\ calls = <<>>
    /\ env = <<>>
    /\ environ = Ambient(pkgcfg.ambient)
    /\ preserved = <<>>
    /\ out = <<>>

\* if not dirty: clean_environment()
SetupClean ==
    /\ dpc = "setup"
    /\ todo # <<>>
    /\ Head(todo) = "clean_environment"
    /\ environ' = clean_environment(pkgcfg, environ)
    /\ calls' = Append(calls, Event("clean_environment", 0))
    /\ todo' = Tail(todo)
    /\ UNCHANGED <<graph, pkgcfg, dep_context, dpc, env, preserved, out>>
    /\ UNCHANGED forkVars

\* The steps that write to the ledger, or leave everything as it is.
SetupLedgerStep ==
    /\ dpc = "setup"
    /\ todo # <<>>
    /\ Head(todo) \in LedgerSteps
    /\ \E ord \in IterationOrders(graph) :
          env' = Extend(env, LedgerOpsOf(Head(todo), ord))
    /\ todo' = Tail(todo)
    /\ UNCHANGED <<graph, pkgcfg, dep_context, dpc, calls, environ, preserved, out>>
    /\ UNCHANGED forkVars

\* The steps that hand the ledger to the hooks of recipes.
SetupHookStep ==
    /\ dpc = "setup"
    /\ todo # <<>>
    /\ Head(todo) \in HookSteps
    /\ \E i \in RecipeOpIds : env' = Extend(env, RecipeOps(i))
    /\ todo' = Tail(todo)
    /\ UNCHANGED <<graph, pkgcfg, dep_context, dpc, calls, environ, preserved, out>>
    /\ UNCHANGED forkVars

\* Entering preserve_environment: the values are kept (None for unset).
SetupPreserve ==
    /\ dpc = "setup"
    /\ todo # <<>>
    /\ Head(todo) = "preserve_environment"
    /\ preserved' = [n \in PreservedNames |->
                        IF n \in DOMAIN environ THEN environ[n] ELSE None]
    /\ calls' = Append(calls, Event("preserve_environment", 0))
    /\ todo' = Tail(todo)
    /\ UNCHANGED <<graph, pkgcfg, dep_context, dpc, env, environ, out>>
    /\ UNCHANGED forkVars

\* load_module(...), module('unload', 'cray-libsci'), load_external_modules(pkg)
SetupLoadModule ==
    /\ dpc = "setup"
    /\ todo # <<>>
    /\ Head(todo) \in ModuleSteps
    /\ \E i \in ModuleEffectIds :
          /\ environ' = ModuleEffect(i, environ)
          /\ calls' = Append(calls, Event(Head(todo), i))
    /\ todo' = Tail(todo)
    /\ UNCHANGED <<graph, pkgcfg, dep_context, dpc, env, preserved, out>>
    /\ UNCHANGED forkVars

\* Leaving preserve_environment: a name that had a value gets it back, a
\* name that had none is deleted.
SetupRestore ==
    /\ dpc = "setup"
    /\ todo # <<>>
    /\ Head(todo) = "restore_environment"
    /\ environ' = [n \in (DOMAIN environ \ {m \in PreservedNames : preserved[m] = None})
                         \cup {m \in PreservedNames : preserved[m] # None} |->
                      IF n \in PreservedNames THEN preserved[n] ELSE environ[n]]
    /\ calls' = Append(calls, Event("restore_environment", 0))
    /\ todo' = Tail(todo)
    /\ UNCHANGED <<graph, pkgcfg, dep_context, dpc, env, preserved, out>>
    /\ UNCHANGED forkVars

\* env.apply_modifications()
SetupApply ==
    /\ dpc = "setup"
    /\ todo # <<>>
    /\ Head(todo) = "apply_modifications"
    /\ environ' = apply_modifications(env, environ)
    /\ calls' = Append(calls, Event("apply_modifications", 0))
    /\ todo' = Tail(todo)
    /\ dpc' = "done"
    /\ UNCHANGED <<graph, pkgcfg, dep_context, env, preserved, out>>
    /\ UNCHANGED forkVars

SetupNext ==
    \/ SetupClean
    \/ SetupLedgerStep
    \/ SetupHookStep
    \/ SetupPreserve
    \/ SetupLoadModule
    \/ SetupRestore
    \/ SetupApply

InitSetup == SetupInit

SpecSetup == InitSetup /\ [][SetupNext]_vars

(***************************************************************************)
(* What was done to os.environ so far.                                     *)
(***************************************************************************)
EventNames == [i \in 1..Len(calls) |-> calls[i].ev]

CleanRan == Has(EventNames, "clean_environment")

\* A module command ran, or the ledger was applied.
IsLaterChange(name) == name \in ModuleSteps \cup {"apply_modifications"}

\* The value of the name in the environment (None when it is unset).
EnvGet(e, name) == IF name \in DOMAIN e THEN e[name] ELSE None

\* The names clean_environment() unsets.
SanitizedNames ==
    Range(LibraryPathVars) \cup Range(build_system_vars) \cup Range(mpi_vars)
        \cup (IF pkgcfg.on_cray THEN {"CRAY_LD_LIBRARY_PATH"} \cup PkgconfNames ELSE {})

\* The environment found is the one the sanitizer leaves.
IsSanitized(e, found) ==
    /\ DOMAIN e = (DOMAIN found \ SanitizedNames)
                      \cup (IF pkgcfg.build_lang THEN {"LC_ALL"} ELSE {})
    /\ \A n \in DOMAIN e \ {"PATH", "LC_ALL"} : e[n] = found[n]
    /\ pkgcfg.build_lang => e["LC_ALL"] = "build_lang"
    /\ ~pkgcfg.build_lang /\ "LC_ALL" \in DOMAIN e => e["LC_ALL"] = found["LC_ALL"]
    /\ e["PATH"] = SelectSeq(found["PATH"], LAMBDA p : ~InMacports(p))

(***************************************************************************)
(* C17.  When dirty is true, setup_package performs none of the            *)
(* sanitizer's operations: until a module is loaded or the ledger is       *)
(* applied os.environ is as it was found.  When dirty is false the         *)
(* sanitizer runs exactly once, as the first change made to os.environ,    *)
(* and its changes are in os.environ at once: before any operation of the  *)
(* ledger is applied and before any module is loaded; hence a variable set *)
(* by a module is never unset by the cleanup.                              *)
(***************************************************************************)
C17_CleanOnceFirstUnlessDirty ==
    dpc \in {"setup", "done"} =>
        LET found == Ambient(pkgcfg.ambient)
            untouched == \A i \in 1..Len(calls) : ~IsLaterChange(calls[i].ev)
        IN  /\ call.dirty =>
                /\ ~CleanRan
                /\ untouched => environ = found
            /\ ~call.dirty =>
                /\ Count(EventNames, "clean_environment") <= 1
                /\ (CleanRan <=> ~Has(todo, "clean_environment"))
                /\ CleanRan => calls[1].ev = "clean_environment"
                /\ ~CleanRan => environ = found
                /\ CleanRan /\ untouched => IsSanitized(environ, found)
                /\ \A i, j \in 1..Len(calls) :
                      calls[i].ev = "clean_environment" /\ IsLaterChange(calls[j].ev)
                      => i < j

\* The environment held the user's toolchain variables and macports; it
\* was cleaned, then a module set LD_LIBRARY_PATH, which is still set when
\* the ledger has been applied.
C17_Witness ==
    /\ dpc = "done"
    /\ ~call.dirty
    /\ pkgcfg.ambient = 2
    /\ pkgcfg.build_lang
    /\ CleanRan
    /\ \E i \in 2..Len(calls) : calls[i].ev \in ModuleSteps /\ calls[i].arg = 2
    /\ EnvGet(environ, "LD_LIBRARY_PATH") = "module"
    /\ EnvGet(environ, "MPICC") = None
    /\ EnvGet(environ, "LC_ALL") = "build_lang"
    /\ \A i \in 1..Len(environ["PATH"]) : ~InMacports(environ["PATH"][i])

(***************************************************************************)
(* C18.  Every module command of setup_package (the compiler's modules,    *)
(* the unload of cray-libsci, the target's module, the external modules)   *)
(* runs inside the preserve_environment block, and right after the block   *)
(* CC, CXX, FC and F77 are in os.environ as they were right before it,     *)
(* set or unset, whatever the modules did to them.                         *)
(***************************************************************************)
\* os.environ right before the block: nothing but the cleaning has
\* changed it.
BeforeBlock ==
    IF call.dirty THEN Ambient(pkgcfg.ambient)
    ELSE clean_environment(pkgcfg, Ambient(pkgcfg.ambient))

BlockLeft == Has(EventNames, "restore_environment")

C18_ModulesInsidePreservedBlock ==
    dpc \in {"setup", "done"} =>
        /\ \A i \in 1..Len(calls) :
              calls[i].ev \in ModuleSteps =>
                  /\ \E j \in 1..(i - 1) : calls[j].ev = "preserve_environment"
                  /\ \A j \in 1..(i - 1) : calls[j].ev # "restore_environment"
        /\ Count(EventNames, "preserve_environment") <= 1
        /\ BlockLeft /\ dpc = "setup" =>
              \A n \in PreservedNames : EnvGet(environ, n) = EnvGet(BeforeBlock, n)
        /\ dpc = "done" => BlockLeft /\ Has(EventNames, "unload_cray_libsci")

\* A run with the user's CC kept: one module set CC, another set CXX and
\* unset FC, and after the block CC is the user's again, CXX is unset.
C18_Witness ==
    /\ dpc = "setup"
    /\ todo # <<>>
    /\ Head(todo) = "implicit_rpaths"
    /\ call.dirty
    /\ pkgcfg.ambient = 2
    /\ \E i, j \in 1..Len(calls) :
          /\ calls[i].ev \in ModuleSteps /\ calls[i].arg = 2
          /\ calls[j].ev = "load_external_modules" /\ calls[j].arg = 3
    /\ BlockLeft
    /\ EnvGet(environ, "CC") = "user"
    /\ EnvGet(environ, "CXX") = None
    /\ EnvGet(environ, "LD_LIBRARY_PATH") = "module"

(***************************************************************************)
(* ChildError.long_message and write_log_summary.  What is written to out  *)
(* is kept as a sequence of parts; pkgcfg holds the log files found on     *)
(* disk and the arguments of a direct call of write_log_summary.           *)
(***************************************************************************)
MaxEvents == 2

\* What a log file may be: missing, or there with some errors and warnings.
LogStates ==
    {[exists |-> FALSE, nerr |-> 0, nwar |-> 0]}
        \cup [exists : {TRUE}, nerr : 0..MaxEvents, nwar : 0..MaxEvents]

\* The types of the exceptions wrapped, as (module, name).
ErrorTypes ==
    {<<"spack.util.executable", "ProcessError">>,
     <<"spack.util.executable", "Executable">>,
     <<"builtins", "ProcessError">>,
     <<"spack.build_environment", "InstallError">>}

ChildErrors ==
    {ChildError(<<t[2], "message">>, t[1], t[2], <<"Traceback", t[2]>>,
                ctx, build_log, test_log) :
        t \in ErrorTypes, ctx \in {<<>>, <<"  >> 12  make()">>},
        build_log \in {None, "build_log"}, test_log \in {None, "test_log"}}

RenderInit ==
    /\ call = [fake |-> FALSE, dirty |-> FALSE, context |-> "build"]
    /\ pkgst = [log_path |-> TRUE, test_suite |-> TRUE,
                test_requires_compiler |-> FALSE]
    /\ host = [tty |-> FALSE, compiler_ok |-> TRUE, ccache |-> "off",
               log_on_disk |-> TRUE]
    /\ ppc = "idle"
    /\ cpc = "none"
    /\ cstep = 1
    /\ pipe = <<>>
    /\ pipe_closed = FALSE
    /\ input_stream = None
    /\ child_stdin = "devnull"
    /\ return_value = Unset
    /\ exc = Unset
    /\ child_result \in ChildErrors
    /\ outcome = NoOutcome
    /\ plog = <<>>
    /\ clog = <<>>
    /\ graph = <<>>
    /\ pkgcfg \in [build : LogStates, test : LogStates,
                   log_type : {"build", "test"}, last : 0..(MaxEvents + 1)]
    /\ dep_context = "build"
    /\ dpc = "render"
    /\ todo = <<>>
    /\ calls = <<>>
    /\ env = <<>>
    /\ environ = <<>>
    /\ preserved = <<>>
    /\ out = <<>>

\* child_result.long_message
RenderLongMessage ==
    /\ dpc = "render"
    /\ out' = long_message(child_result, pkgcfg)
    /\ dpc' = "rendered"
    /\ UNCHANGED <<graph, pkgcfg, dep_context, todo, calls, env, environ, preserved>>
    /\ UNCHANGED forkVars

\* write_log_summary(out, log_type, log, last) on a log that is there
RenderLogSummary ==
    /\ dpc = "render"
    /\ pkgcfg[pkgcfg.log_type].exists
    /\ out' = write_log_summary(<<>>, pkgcfg.log_type, pkgcfg[pkgcfg.log_type],
                                pkgcfg.last)
    /\ dpc' = "summarized"
    /\ UNCHANGED <<graph, pkgcfg, dep_context, todo, calls, env, environ, preserved>>
    /\ UNCHANGED forkVars

RenderNext ==
    \/ RenderLongMessage
    \/ RenderLogSummary

InitRender == RenderInit

SpecRender == InitRender /\ [][RenderNext]_vars

\* The excerpts of one kind ("error" or "warning") written for one log.
ExcerptsIn(o, of, log_type) ==
    SelectSeq(o, LAMBDA p : p.part = "excerpt" /\ p.of = of /\ p.log_type = log_type)

HeadersIn(o, of, log_type) ==
    SelectSeq(o, LAMBDA p : p.part = "header" /\ p.of = of /\ p.log_type = log_type)

\* The last k of the n events of one kind in a log.
LastEvents(of, n, k) == [i \in 1..k |-> [kind |-> of, line |-> n - k + i]]

\* How many of n events are shown under the limit last (0: no limit).
ShownCount(n, last) == IF last > 0 /\ n > last THEN last ELSE n

\* The summary of one log in o is the one the claim describes.
SummaryAsClaimed(o, log_type, log, last) ==
    LET errs == ExcerptsIn(o, "error", log_type)
        wars == ExcerptsIn(o, "warning", log_type)
    IN  /\ ~(errs # <<>> /\ wars # <<>>)
        /\ log.nerr > 0 =>
              /\ errs = <<Excerpt("error", log_type,
                                  LastEvents("error", log.nerr,
                                             ShownCount(log.nerr, last)))>>
              /\ HeadersIn(o, "error", log_type)
                    = <<Header("error", log_type, ShownCount(log.nerr, last))>>
              /\ HeadersIn(o, "warning", log_type) = <<>>
        /\ (log.nerr = 0 /\ log.nwar > 0) =>
              /\ wars = <<Excerpt("warning", log_type,
                                  LastEvents("warning", log.nwar,
                                             ShownCount(log.nwar, last)))>>
              /\ HeadersIn(o, "warning", log_type)
                    = <<Header("warning", log_type, ShownCount(log.nwar, last))>>
              /\ HeadersIn(o, "error", log_type) = <<>>
        /\ (wars # <<>>) => (log.nerr = 0 /\ log.nwar > 0)
        /\ (log.nerr = 0 /\ log.nwar = 0) =>
              \A i \in 1..Len(o) :
                  o[i].log_type = log_type => o[i].part \notin {"header", "excerpt"}
        /\ last > 0 =>
              \A i \in 1..Len(o) :
                  (o[i].part = "excerpt" /\ o[i].log_type = log_type)
                      => Len(o[i].body) <= last

\* Nothing of a log is summarised in o.
NoSummaryOf(o, log_type) ==
    \A i \in 1..Len(o) :
        o[i].log_type = log_type => o[i].part \notin {"header", "excerpt"}

OtherLog(log_type) == IF log_type = "build" THEN "test" ELSE "build"

LogPathOf(e, log_type) == IF log_type = "build" THEN e.build_log ELSE e.test_log

\* C19: the summary of a log shows the error excerpt whenever the log has
\* an error, the warning excerpt only when it has no error and a warning,
\* and nothing when it has neither; the errors and the warnings of one log
\* are never both shown, and under a limit N only the last N events are
\* shown.  This holds of write_log_summary called by itself and of each
\* log that long_message summarises for an error of build_errors; a
\* ChildError with only one log never shows both kinds in its message.
C19_LogSummaryErrorsElseWarnings ==
    /\ dpc = "summarized" =>
          /\ SummaryAsClaimed(out, pkgcfg.log_type, pkgcfg[pkgcfg.log_type],
                              pkgcfg.last)
          /\ NoSummaryOf(out, OtherLog(pkgcfg.log_type))
    /\ (dpc = "rendered" /\ <<child_result.module, child_result.name>> \in build_errors) =>
          /\ \A lt \in {"build", "test"} :
                IF LogThere(LogPathOf(child_result, lt), pkgcfg[lt])
                THEN SummaryAsClaimed(out, lt, pkgcfg[lt], 0)
                ELSE NoSummaryOf(out, lt)
          /\ (child_result.build_log = None \/ child_result.test_log = None) =>
                ~(\E i, j \in 1..Len(out) :
                      /\ out[i].part = "excerpt" /\ out[i].of = "error"
                      /\ out[j].part = "excerpt" /\ out[j].of = "warning")

\* A log with more errors than the limit, and warnings, summarised: only
\* the last errors are shown.
C19_Witness ==
    /\ dpc = "summarized"
    /\ pkgcfg.last > 0
    /\ pkgcfg[pkgcfg.log_type].nerr > pkgcfg.last
    /\ pkgcfg[pkgcfg.log_type].nwar > 0
    /\ Len(out) = 2
    /\ out[2].part = "excerpt" /\ out[2].of = "error" /\ out[2].n = pkgcfg.last

HasPart(o, part) == \E i \in 1..Len(o) : o[i].part = part

\* C20: long_message writes a log excerpt only for an error whose
\* (module, name) pair is in build_errors and the context of the recipe
\* only for one whose pair is not; no message holds both.  An error of
\* build_errors with events in a log that is there gets an excerpt, any
\* other error with a context gets that context.
C20_ExcerptOrContextByAllowList ==
    dpc = "rendered" =>
        LET listed == <<child_result.module, child_result.name>> \in build_errors
        IN  /\ HasPart(out, "excerpt") => listed
            /\ HasPart(out, "context") => ~listed
            /\ ~(HasPart(out, "excerpt") /\ HasPart(out, "context"))
            /\ (listed /\ \E lt \in {"build", "test"} :
                              /\ LogThere(LogPathOf(child_result, lt), pkgcfg[lt])
                              /\ pkgcfg[lt].nerr + pkgcfg[lt].nwar > 0)
                  => HasPart(out, "excerpt")
            /\ (~listed /\ child_result.context # <<>>)
                  => \E i \in 1..Len(out) : out[i] = ContextLines(child_result.context)

\* A ProcessError of another module, with a context and a build log full
\* of errors, rendered: the context is there and no excerpt is.
C20_Witness ==
    /\ dpc = "rendered"
    /\ child_result.name = "ProcessError"
    /\ child_result.module # "spack.util.executable"
    /\ child_result.context # <<>>
    /\ LogThere(child_result.build_log, pkgcfg.build)
    /\ pkgcfg.build.nerr > 0
    /\ HasPart(out, "context")
    /\ ~HasPart(out, "excerpt")
    /\ HasPart(out, "pointer")

\* The build action raised an error, the child wrapped it in a ChildError
\* and the parent has rendered it.
FailedActionRendered ==
    /\ ppc \in {"raise", "done"}
    /\ child_result # Unset
    /\ IsChildError(child_result)
    /\ exc # Unset
    /\ exc.where = "function"

\* The path of the log of this call's context.
ContextLog == IF call.context = "build" THEN "build_log" ELSE "test_log"

PrintsPath(o, log_type, path) ==
    \E i \in 1..Len(o) : o[i] = Pointer(log_type, path)

\* C21 as stated: every failed action's rendered ChildError prints the
\* path of the log of its context.
C21_LogPathAlwaysPrinted ==
    FailedActionRendered => PrintsPath(out, call.context, ContextLog)

\* C21: the rendered ChildError of a failed action prints the path of the
\* log of its context exactly when that log file is on disk (and, in build
\* context, pkg has a log_path); it never prints the path of the other
\* context's log.
C21_LogPathPrintedWhenLogExists ==
    FailedActionRendered =>
        /\ PrintsPath(out, call.context, ContextLog)
              <=> /\ host.log_on_disk
                  /\ call.context = "build" => pkgst.log_path
        /\ \A i \in 1..Len(out) :
              out[i].part = "pointer" => out[i] = Pointer(call.context, ContextLog)

\* A failed test action whose rendered error prints the test log's path.
C21_Witness ==
    /\ FailedActionRendered
    /\ call.context = "test"
    /\ ppc = "done"
    /\ PrintsPath(out, "test", "test_log")

ChildErrorFields ==
    {"message", "module", "name", "traceback", "context", "build_log", "test_log"}

\* The StopPhase the child sent: the one it caught, or the one function()
\* returned.
StopPhaseSent ==
    IF exc # Unset /\ exc.type = "StopPhase" THEN StopPhase("stop", "")
    ELSE return_value

\* Strings, lists of strings or None (None is kept as a string here).
PlainChildErrorArgs(a) ==
    /\ Len(a) = 7
    /\ a[1] \in Seq(STRING)
    /\ a[2] \in STRING
    /\ a[3] \in STRING
    /\ a[4] \in Seq(STRING)
    /\ a[5] \in Seq(STRING)
    /\ a[6] \in STRING
    /\ a[7] \in STRING

\* C22: the ChildError the parent rebuilds equals, in its seven fields,
\* the one the child built; a StopPhase arrives with the same message and
\* long message; and what travels for a ChildError or a StopPhase is made
\* of strings, lists of strings and None only.
C22_ErrorsRoundTripAsPlainData ==
    /\ (child_result # Unset /\ IsChildError(child_result)) =>
          \A f \in ChildErrorFields : child_result[f] = MakeChildError(exc)[f]
    /\ (child_result # Unset /\ IsStopPhase(child_result)) =>
          /\ child_result.message = StopPhaseSent.message
          /\ child_result.long_message = StopPhaseSent.long_message
    /\ \A i \in 1..Len(pipe) :
          /\ pipe[i].fn = "_make_child_error" => PlainChildErrorArgs(pipe[i].args)
          /\ pipe[i].fn = "_make_stop_phase" =>
                /\ Len(pipe[i].args) = 2
                /\ pipe[i].args[1] \in STRING
                /\ pipe[i].args[2] \in STRING

\* A ChildError with a context and a test log, received and not yet
\* tagged.
C22_Witness ==
    /\ ppc = "join"
    /\ IsChildError(child_result)
    /\ child_result.context # <<>>
    /\ child_result.test_log = "test_log"
    /\ child_result.build_log = None
    /\ child_result.pkg = None

(***************************************************************************)
(* _static_to_shared_library(arch, compiler, static_lib, shared_lib,       *)
(* **kwargs).  A path is a sequence of strings: the directory, then the    *)
(* parts of the file name that dots separate.  An architecture tag is the  *)
(* sequence of its words.  pkgcfg holds the arguments of the call, out the *)
(* arguments handed to the compiler and calls the symlinks created.        *)
(***************************************************************************)
\* 'linux' in arch
InTag(word, arch) == \E i \in 1..Len(arch) : arch[i] = word

\* os.path.splitext(path)[0]
SplitExtRoot(path) == IF Len(path) > 2 THEN SubSeq(path, 1, Len(path) - 1) ELSE path

\* os.path.basename(path)
Basename(path) == <<"">> \o Tail(path)

\* '{0}.{1}'.format(path, suffix)
DotJoin(path, suffix) == Append(path, suffix)

\* dso_suffix = 'dylib' if sys.platform == 'darwin' else 'so'
dso_suffix(sys_platform) == IF sys_platform = "darwin" THEN "dylib" ELSE "so"

\* One argument of the compiler: an option and the text that follows it.
Arg(opt, text) == [opt |-> opt, text |-> text]

\* os.symlink(src, dst): dst is created and holds src.
Symlink(src, dst) == [src |-> src, dst |-> dst]

\* The file a symlink leads to: its text, taken from its own directory.
LinkTarget(l) == <<l.dst[1]>> \o Tail(l.src)

\* kwargs.get('compat_version', version)
CompatVersion(kw) == IF kw.compat_version = "absent" THEN kw.version ELSE kw.compat_version

\* The link line of each platform.
PlatformArgs(arch, static_lib, shared_lib, version, compat_version) ==
    IF InTag("linux", arch) \/ InTag("cray", arch)
    THEN LET soname == IF compat_version # None
                       THEN DotJoin(Basename(shared_lib), compat_version)
                       ELSE Basename(shared_lib)
         IN  <<Arg("-shared", <<>>), Arg("-Wl,-soname,", soname),
               Arg("-Wl,--whole-archive", <<>>), Arg("", static_lib),
               Arg("-Wl,--no-whole-archive", <<>>)>>
    ELSE IF InTag("darwin", arch)
    THEN LET install_name == IF compat_version # None
                             THEN DotJoin(shared_lib, compat_version)
                             ELSE shared_lib
         IN  <<Arg("-dynamiclib", <<>>), Arg("-install_name", install_name),
               Arg("-Wl,-force_load,", static_lib)>>
             \o (IF compat_version # None
                 THEN <<Arg("-compatibility_version", <<compat_version>>)>>
                 ELSE <<>>)
             \o (IF version # None
                 THEN <<Arg("-current_version", <<version>>)>> ELSE <<>>)
    ELSE <<>>

\* shared_lib after the version is appended: the file given to -o.
OutputFile(shared_lib_base, version, compat_version) ==
    IF version # None THEN DotJoin(shared_lib_base, version)
    ELSE IF compat_version # None THEN DotJoin(shared_lib_base, compat_version)
    ELSE shared_lib_base

\* The symlinks for version and compat_version, in the order made.
Symlinks(shared_lib_base, shared_lib, version, compat_version) ==
    LET shared_lib_link == Basename(shared_lib)
    IN  (IF version # None \/ compat_version # None
         THEN <<Symlink(shared_lib_link, shared_lib_base)>> ELSE <<>>)
     \o (IF compat_version # None /\ compat_version # version
         THEN <<Symlink(shared_lib_link, DotJoin(shared_lib_base, compat_version))>>
         ELSE <<>>)

\* The shared library's path before any version: the one given, or the
\* static library's with the suffix of shared objects.
SharedLibBase(kw) ==
    IF kw.shared_lib = <<>>
    THEN DotJoin(SplitExtRoot(kw.static_lib), dso_suffix(kw.sys_platform))
    ELSE kw.shared_lib

\* A variant of compiler_args: no link line for darwin.
compiler_args_linux_only(kw) ==
    LET compat_version == CompatVersion(kw)
        shared_lib == OutputFile(SharedLibBase(kw), kw.version, compat_version)
    IN  (IF InTag("darwin", kw.arch) THEN <<>>
         ELSE PlatformArgs(kw.arch, kw.static_lib, SharedLibBase(kw), kw.version,
                           compat_version))
        \o kw.arguments
        \o <<Arg("-o", shared_lib)>>

\* compiler_args as handed to the compiler.
compiler_args(kw) ==
    LET compat_version == CompatVersion(kw)
        shared_lib == OutputFile(SharedLibBase(kw), kw.version, compat_version)
    IN  PlatformArgs(kw.arch, kw.static_lib, SharedLibBase(kw), kw.version,
                     compat_version)
        \o kw.arguments
        \o <<Arg("-o", shared_lib)>>

\* The architecture tags: platform, operating system, target.
ArchTags ==
    {<<"linux", "ubuntu18.04", "x86_64">>, <<"cray", "cnl7", "haswell">>,
     <<"darwin", "mojave", "x86_64">>, <<"test", "debian6", "core2">>}

Versions == {"1", "2"}

SharedLibInit ==
    /\ call = [fake |-> FALSE, dirty |-> FALSE, context |-> "build"]
    /\ pkgst = [log_path |-> TRUE, test_suite |-> TRUE,
                test_requires_compiler |-> FALSE]
    /\ host = [tty |-> FALSE, compiler_ok |-> TRUE, ccache |-> "off",
               log_on_disk |-> TRUE]
    /\ ppc = "idle"
    /\ cpc = "none"
    /\ cstep = 1
    /\ pipe = <<>>
    /\ pipe_closed = FALSE
    /\ input_stream = None
    /\ child_stdin = "devnull"
    /\ return_value = Unset
    /\ exc = Unset
    /\ child_result = Unset
    /\ outcome = NoOutcome
    /\ plog = <<>>
    /\ clog = <<>>
    /\ graph = <<>>
    /\ pkgcfg \in [arch : ArchTags, sys_platform : {"linux", "darwin"},
                   static_lib : {<<"build", "libfoo", "a">>, <<"build", "libfoo">>},
                   shared_lib : {<<>>, <<"prefix/lib", "libbar", "so">>},
                   version : {None} \cup Versions,
                   compat_version : {"absent", None} \cup Versions,
                   arguments : {<<>>, <<Arg("-lm", <<>>)>>}]
    /\ dep_context = "build"
    /\ dpc = "convert"
    /\ todo = <<>>
    /\ calls = <<>>
    /\ env = <<>>
    /\ environ = <<>>
    /\ preserved = <<>>
    /\ out = <<>>

\* The whole call: the symlinks are made, then the compiler runs.
StaticToSharedLibrary ==
    /\ dpc = "convert"
    /\ LET compat_version == CompatVersion(pkgcfg)
           shared_lib_base == SharedLibBase(pkgcfg)
           shared_lib == OutputFile(shared_lib_base, pkgcfg.version, compat_version)
       IN  /\ calls' = Symlinks(shared_lib_base, shared_lib, pkgcfg.version,
                                compat_version)
           /\ out' = compiler_args(pkgcfg)
    /\ dpc' = "converted"
    /\ UNCHANGED <<graph, pkgcfg, dep_context, todo, env, environ, preserved>>
    /\ UNCHANGED forkVars

SharedLibNext == StaticToSharedLibrary

InitSharedLib == SharedLibInit

SpecSharedLib == InitSharedLib /\ [][SharedLibNext]_vars

HasOpt(args, opt) == \E i \in 1..Len(args) : args[i].opt = opt

HasArg(args, opt, text) == \E i \in 1..Len(args) : args[i] = Arg(opt, text)

\* A version or compatibility version the caller gave.
Supplied(v) == v \notin {None, "absent"}

\* C23: for a linux or cray tag the compiler gets -shared and a -soname;
\* for a darwin tag -dynamiclib and -install_name, with
\* -compatibility_version exactly when a compatibility version applies
\* and -current_version exactly when a version is given; two symlinks are
\* made when version and compat_version are both given and differ, one
\* when only version is given or both are equal, none when neither is.
C23_PlatformLinkLineAndSymlinks ==
    dpc = "converted" =>
        LET linux == InTag("linux", pkgcfg.arch) \/ InTag("cray", pkgcfg.arch)
            darwin == InTag("darwin", pkgcfg.arch)
            version == pkgcfg.version
            compat == CompatVersion(pkgcfg)
        IN  /\ linux => /\ HasOpt(out, "-shared")
                        /\ HasOpt(out, "-Wl,-soname,")
                        /\ ~HasOpt(out, "-dynamiclib")
            /\ darwin =>
                  /\ HasOpt(out, "-dynamiclib")
                  /\ HasOpt(out, "-install_name")
                  /\ ~HasOpt(out, "-shared")
                  /\ IF compat # None
                     THEN HasArg(out, "-compatibility_version", <<compat>>)
                     ELSE ~HasOpt(out, "-compatibility_version")
                  /\ IF version # None
                     THEN HasArg(out, "-current_version", <<version>>)
                     ELSE ~HasOpt(out, "-current_version")
            /\ (Supplied(version) /\ Supplied(pkgcfg.compat_version)
                    /\ version # pkgcfg.compat_version) => Len(calls) = 2
            /\ (Supplied(version) /\ ~Supplied(pkgcfg.compat_version)) => Len(calls) = 1
            /\ (Supplied(version) /\ version = pkgcfg.compat_version) => Len(calls) = 1
            /\ (~Supplied(version) /\ ~Supplied(pkgcfg.compat_version)) => Len(calls) = 0

\* A darwin library with version 2 and compatibility version 1: both
\* version options and two symlinks.
C23_Witness ==
    /\ dpc = "converted"
    /\ InTag("darwin", pkgcfg.arch)
    /\ pkgcfg.version = "2"
    /\ pkgcfg.compat_version = "1"
    /\ HasArg(out, "-compatibility_version", <<"1">>)
    /\ HasArg(out, "-current_version", <<"2">>)
    /\ Len(calls) = 2

\* The file named after -o.
CompilerOutput == (CHOOSE i \in 1..Len(out) : out[i].opt = "-o")

\* C29: every symlink made is at a name other than the file given to the
\* compiler with -o, and leads to that file: none leads to itself and
\* none sits where the compiler is about to write.
C29_SymlinksPointAtOutput ==
    dpc = "converted" =>
        \A i \in 1..Len(calls) :
            /\ calls[i].dst # out[CompilerOutput].text
            /\ LinkTarget(calls[i]) = out[CompilerOutput].text
            /\ LinkTarget(calls[i]) # calls[i].dst

\* C29 where the code keeps to it: but for the call with a compatibility
\* version and no version, the symlinks are at other names than the
\* output file and lead to it.
C29_HoldsUnlessCompatVersionAlone ==
    (dpc = "converted" /\ ~(pkgcfg.version = None /\ Supplied(pkgcfg.compat_version))) =>
        \A i \in 1..Len(calls) :
            /\ calls[i].dst # out[CompilerOutput].text
            /\ LinkTarget(calls[i]) = out[CompilerOutput].text

(***************************************************************************)
(* MakeExecutable.__call__ with its arguments: pkgcfg holds self.jobs, the *)
(* value of SPACK_NO_PARALLEL_MAKE and the keyword arguments of the call   *)
(* ("absent": the keyword is not passed); calls holds the call made to     *)
(* Executable.__call__.                                                    *)
(***************************************************************************)
MaxJobs == 2

\* env_flag(SPACK_NO_PARALLEL_MAKE): set to a value that reads as true.
env_flag(value) == value \in {"true", "1"}

\* kwargs.pop('parallel', self.jobs > 1), as a truth value
PopParallel(kw, jobs) ==
    IF kw.parallel = "absent" THEN jobs > 1 ELSE kw.parallel = "True"

\* parallel = (not disable) and kwargs.pop('parallel', self.jobs > 1):
\* the pop is evaluated only when disable is false.
Parallel(kw, jobs, disable) == ~disable /\ PopParallel(kw, jobs)

\* The names of the keyword arguments the caller passed.
KwNames(kw) ==
    {k \in {"parallel", "jobs_env", "fail_on_error"} : kw[k] # "absent"}

\* The names of the keyword arguments left for Executable.__call__.
PassedKwargs(kw, jobs, disable) ==
    LET after_parallel == IF disable THEN KwNames(kw) ELSE KwNames(kw) \ {"parallel"}
    IN  IF Parallel(kw, jobs, disable)
        THEN (after_parallel \ {"jobs_env"})
                \cup (IF kw.jobs_env \notin {"absent", None} THEN {"extra_env"} ELSE {})
        ELSE after_parallel

\* args as handed on: '-j{0}'.format(self.jobs) in front when parallel
\* ("-j" stands for it).
PassedArgs(args, kw, jobs, disable) ==
    IF Parallel(kw, jobs, disable) THEN <<"-j">> \o args ELSE args

\* kwargs['extra_env'] = {jobs_env: str(self.jobs)}
ExtraEnv(kw, jobs, disable) ==
    IF Parallel(kw, jobs, disable) /\ kw.jobs_env \notin {"absent", None}
    THEN <<kw.jobs_env>> ELSE <<>>

MakeInit ==
    /\ call = [fake |-> FALSE, dirty |-> FALSE, context |-> "build"]
    /\ pkgst = [log_path |-> TRUE, test_suite |-> TRUE,
                test_requires_compiler |-> FALSE]
    /\ host = [tty |-> FALSE, compiler_ok |-> TRUE, ccache |-> "off",
               log_on_disk |-> TRUE]
    /\ ppc = "idle"
    /\ cpc = "none"
    /\ cstep = 1
    /\ pipe = <<>>
    /\ pipe_closed = FALSE
    /\ input_stream = None
    /\ child_stdin = "devnull"
    /\ return_value = Unset
    /\ exc = Unset
    /\ child_result = Unset
    /\ outcome = NoOutcome
    /\ plog = <<>>
    /\ clog = <<>>
    /\ graph = <<>>
    /\ pkgcfg \in [jobs : 1..MaxJobs,
                   no_parallel_make : {"unset", "true", "1", "false"},
                   args : {<<>>, <<"install">>},
                   parallel : {"absent", "True", "False"},
                   jobs_env : {"absent", None, "MAKE_PARALLELISM"},
                   fail_on_error : {"absent", "False"}]
    /\ dep_context = "build"
    /\ dpc = "make"
    /\ todo = <<>>
    /\ calls = <<>>
    /\ env = <<>>
    /\ environ = <<>>
    /\ preserved = <<>>
    /\ out = <<>>

\* One call of the make executable.
MakeCall ==
    /\ dpc = "make"
    /\ LET disable == env_flag(pkgcfg.no_parallel_make)
       IN  calls' = <<[args |-> PassedArgs(pkgcfg.args, pkgcfg, pkgcfg.jobs, disable),
                       kwargs |-> PassedKwargs(pkgcfg, pkgcfg.jobs, disable),
                       extra_env |-> ExtraEnv(pkgcfg, pkgcfg.jobs, disable)]>>
    /\ dpc' = "made"
    /\ UNCHANGED <<graph, pkgcfg, dep_context, todo, env, environ, preserved, out>>
    /\ UNCHANGED forkVars

MakeNext == MakeCall

InitMake == MakeInit

SpecMake == InitMake /\ [][MakeNext]_vars

\* C24 as stated: 'parallel' and 'jobs_env' never reach Executable's call,
\* and with SPACK_NO_PARALLEL_MAKE set neither -j nor a jobs variable is
\* added.
C24_ParallelAndJobsEnvSwallowed ==
    dpc = "made" =>
        /\ "parallel" \notin calls[1].kwargs
        /\ "jobs_env" \notin calls[1].kwargs
        /\ env_flag(pkgcfg.no_parallel_make) =>
              /\ calls[1].args = pkgcfg.args
              /\ calls[1].extra_env = <<>>
              /\ "extra_env" \notin calls[1].kwargs

\* C24, the part the code keeps: with SPACK_NO_PARALLEL_MAKE set neither
\* -j nor a jobs variable is added, and in a parallel call both keywords
\* are consumed.
C24_NoJobsWhenDisabled ==
    dpc = "made" =>
        /\ env_flag(pkgcfg.no_parallel_make) =>
              /\ calls[1].args = pkgcfg.args
              /\ calls[1].extra_env = <<>>
              /\ "extra_env" \notin calls[1].kwargs
        /\ calls[1].args # pkgcfg.args =>
              /\ "parallel" \notin calls[1].kwargs
              /\ "jobs_env" \notin calls[1].kwargs

\* The steps that load a module.
LoadSteps == ModuleSteps \ {"unload_cray_libsci"}

\* The last module command that ran set LD_LIBRARY_PATH.
LastModuleSetLibraryPath ==
    \E i \in 1..Len(calls) :
        /\ calls[i].ev \in ModuleSteps /\ calls[i].arg = 2
        /\ \A j \in (i + 1)..Len(calls) : calls[j].ev \notin ModuleSteps

\* C25 as stated: every module load comes after the setup ledger was
\* applied to os.environ, so the ledger never undoes what a module set:
\* LD_LIBRARY_PATH as the last module left it is still there at the end.
C25_ModulesLoadedAfterLedgerApplied ==
    dpc \in {"setup", "done"} =>
        /\ \A i \in 1..Len(calls) :
              calls[i].ev \in LoadSteps =>
                  \E j \in 1..(i - 1) : calls[j].ev = "apply_modifications"
        /\ (dpc = "done" /\ LastModuleSetLibraryPath) =>
              EnvGet(environ, "LD_LIBRARY_PATH") = "module"

\* C25, what the code does: every module command comes before the ledger
\* is applied.
C25_ModulesLoadedBeforeLedgerApplied ==
    dpc \in {"setup", "done"} =>
        \A i \in 1..Len(calls) :
            calls[i].ev \in ModuleSteps =>
                \A j \in 1..(i - 1) : calls[j].ev # "apply_modifications"

\* C25, the consequence: a run that ends with LD_LIBRARY_PATH unset by the
\* ledger although the last module had set it.
C25_LedgerUndoesModule ==
    /\ dpc = "done"
    /\ LastModuleSetLibraryPath
    /\ EnvGet(environ, "LD_LIBRARY_PATH") = None

(***************************************************************************)
(* get_package_context(traceback, context).  A frame is [file, function,   *)
(* lineno] with lineno as the traceback reports it; every file has         *)
(* pkgcfg.nlines lines, and a line of source is known by its true number   *)
(* in the file on disk.  calls holds the heading, out the lines shown.     *)
(***************************************************************************)
MaxLines == 4
MaxContext == 2

\* 'package.py' in filename or 'spack/build_systems' in filename
IsRecipeCode(file) == file \in {"package.py", "spack/build_systems"}

\* spack.paths.is_package_file(filename)
is_package_file(file) == file = "package.py"

\* The line the importer puts in front of a package file: the traceback's
\* line numbers of such a file are one more than the file's own.
ImportShift(file) == IF is_package_file(file) THEN 1 ELSE 0

\* The frames that stop the search.
Stops(frame) ==
    /\ IsRecipeCode(frame.file)
    /\ frame.function \notin {"run_test", "_run_test_helper"}

\* for ... in reversed(traceback): ... break.  Without a break the loop's
\* variables keep the values of the last frame visited, the outermost.
SelectedFrame(traceback) ==
    LET stops == {i \in 1..Len(traceback) : Stops(traceback[i])}
    IN  IF stops = {} THEN traceback[1]
        ELSE traceback[CHOOSE i \in stops : \A j \in stops : j <= i]

\* sourcelines[start:stop] of a file of nlines lines, as the true numbers
\* of the lines taken.
SliceOfFile(nlines, start, stop) ==
    LET last == IF stop < nlines THEN stop ELSE nlines
    IN  IF last > start THEN [k \in 1..(last - start) |-> start + k] ELSE <<>>

\* The lines of context: start, the slice, and for each line of the slice
\* its mark and its label (i runs from 0 in the code, k from 1 here).
ShownLines(nlines, lineno, adjust, context) ==
    LET start == IF lineno > context + 1 THEN lineno - context - 1 ELSE 0
        sourcelines == SliceOfFile(nlines, start, lineno + context + 1)
    IN  [k \in 1..Len(sourcelines) |->
            [mark |-> start + (k - 1) + adjust = lineno,
             label |-> start + (k - 1) + adjust,
             text |-> sourcelines[k]]]

\* '{0}:{1:d}, in {2}:'.format(filename, lineno, function)
Heading(frame, lineno) ==
    [file |-> frame.file, lineno |-> lineno, function |-> frame.function]

Frames(nlines) ==
    {[file |-> f, function |-> fn, lineno |-> l + ImportShift(f)] :
        f \in {"package.py", "spack/build_systems", "spack/util"},
        fn \in {"install", "run_test"}, l \in 1..nlines}

\* The tracebacks: one or two frames, the outermost first.
Tracebacks(nlines) ==
    {<<f>> : f \in Frames(nlines)}
        \cup {<<f, g>> : f \in Frames(nlines), g \in Frames(nlines)}

ContextInit ==
    /\ call = [fake |-> FALSE, dirty |-> FALSE, context |-> "build"]
    /\ pkgst = [log_path |-> TRUE, test_suite |-> TRUE,
                test_requires_compiler |-> FALSE]
    /\ host = [tty |-> FALSE, compiler_ok |-> TRUE, ccache |-> "off",
               log_on_disk |-> TRUE]
    /\ ppc = "idle"
    /\ cpc = "none"
    /\ cstep = 1
    /\ pipe = <<>>
    /\ pipe_closed = FALSE
    /\ input_stream = None
    /\ child_stdin = "devnull"
    /\ return_value = Unset
    /\ exc = Unset
    /\ child_result = Unset
    /\ outcome = NoOutcome
    /\ plog = <<>>
    /\ clog = <<>>
    /\ graph = <<>>
    /\ \E n \in 1..MaxLines, c \in 1..MaxContext :
          \E tb \in Tracebacks(n) :
              pkgcfg = [nlines |-> n, context |-> c, traceback |-> tb]
    /\ dep_context = "build"
    /\ dpc = "context"
    /\ todo = <<>>
    /\ calls = <<>>
    /\ env = <<>>
    /\ environ = <<>>
    /\ preserved = <<>>
    /\ out = <<>>

\* get_package_context(traceback, context)
GetPackageContext ==
    /\ dpc = "context"
    /\ LET frame == SelectedFrame(pkgcfg.traceback)
           adjust == IF is_package_file(frame.file) THEN 1 ELSE 0
           lineno == frame.lineno - adjust
       IN  /\ calls' = <<Heading(frame, lineno)>>
           /\ out' = ShownLines(pkgcfg.nlines, lineno, adjust, pkgcfg.context)
    /\ dpc' = "context_shown"
    /\ UNCHANGED <<graph, pkgcfg, dep_context, todo, env, environ, preserved>>
    /\ UNCHANGED forkVars

ContextNext == GetPackageContext

InitContext == ContextInit

SpecContext == InitContext /\ [][ContextNext]_vars

\* The deepest frame of recipe code outside the test methods, if any.
HasRecipeFrame == \E i \in 1..Len(pkgcfg.traceback) : Stops(pkgcfg.traceback[i])

DeepestRecipeFrame ==
    pkgcfg.traceback[CHOOSE i \in 1..Len(pkgcfg.traceback) :
                        /\ Stops(pkgcfg.traceback[i])
                        /\ \A j \in (i + 1)..Len(pkgcfg.traceback) :
                              ~Stops(pkgcfg.traceback[j])]

\* The failing line's number in the file on disk.
TrueLine(frame) == frame.lineno - ImportShift(frame.file)

\* The numbers from lo to hi, in order.
FromTo(lo, hi) == IF hi >= lo THEN [k \in 1..(hi + 1 - lo) |-> lo + k - 1] ELSE <<>>

\* C26 as stated: the frame chosen is the deepest one of recipe code
\* outside run_test; the lines shown are the context lines before the
\* failing line L, L, and the context lines after (fewer only at the ends
\* of the file), each under its true number, and the only line marked is
\* L; for package files and for build-system files alike.
C26_ContextAroundFailingLine ==
    (dpc = "context_shown" /\ HasRecipeFrame) =>
        LET frame == DeepestRecipeFrame
            L == TrueLine(frame)
            c == pkgcfg.context
            lo == IF L > c THEN L - c ELSE 1
            hi == IF L + c < pkgcfg.nlines THEN L + c ELSE pkgcfg.nlines
        IN  /\ calls = <<Heading(frame, L)>>
            /\ [k \in 1..Len(out) |-> out[k].text] = FromTo(lo, hi)
            /\ \A k \in 1..Len(out) : out[k].label = out[k].text
            /\ \A k \in 1..Len(out) : out[k].mark <=> out[k].text = L

\* C26, the part the code keeps: the frame chosen and the line number of
\* the heading; the lines shown begin context lines before L (or at the
\* file's start), have consecutive labels, and at most one is marked, the
\* one labelled L.
C26_FrameAndHeading ==
    (dpc = "context_shown" /\ HasRecipeFrame) =>
        LET frame == DeepestRecipeFrame
            L == TrueLine(frame)
            c == pkgcfg.context
        IN  /\ calls = <<Heading(frame, L)>>
            /\ out # <<>> => out[1].text = (IF L > c THEN L - c ELSE 1)
            /\ \A k \in 1..Len(out) : out[k].mark <=> out[k].label = L
            /\ \A k \in 2..Len(out) : out[k].label = out[k - 1].label + 1

\* A failure in a build-system file: the line marked is the one after the
\* failing line, under the failing line's number.
C26_WrongLineMarked ==
    /\ dpc = "context_shown"
    /\ HasRecipeFrame
    /\ DeepestRecipeFrame.file = "spack/build_systems"
    /\ \E k \in 1..Len(out) :
          /\ out[k].mark
          /\ out[k].label = TrueLine(DeepestRecipeFrame)
          /\ out[k].text = TrueLine(DeepestRecipeFrame) + 1

(***************************************************************************)
(* Progress of fork(): the parent and the child take their steps as long   *)
(* as they can; only the signal that ends the child from outside is under  *)
(* no obligation to come.                                                  *)
(***************************************************************************)
ForkProgress ==
    \/ ParentDupStdin
    \/ ParentSpawn
    \/ ParentFinally
    \/ ParentRecv
    \/ ParentJoin
    \/ ParentInspect
    \/ ParentPrintContext
    \/ ParentRaise
    \/ ChildBegin
    \/ ChildSetupStep
    \/ ChildCall
    \/ ChildSend
    \/ ChildExceptStopPhase
    \/ ChildExceptBaseException
    \/ ChildFinally

SpecForkLive == Init /\ [][Next]_vars /\ WF_vars(ForkProgress)

\* C27 as stated: once the child's process has ended, the parent's call
\* of fork() returns or raises.
C27_ParentEndsOnceChildGone == (cpc = "exited") ~> (ppc = "done")

\* C27, what the code gives: once the child's process has ended after it
\* sent its message, the parent's call of fork() returns or raises.
C27_ParentEndsOnceChildSentAndGone ==
    (cpc = "exited" /\ Has(clog, "send")) ~> (ppc = "done")

\* The parent waits in recv, the child is gone and nothing was sent:
\* no step is left to take.
C27_ParentBlockedForever ==
    /\ ppc = "recv"
    /\ cpc = "exited"
    /\ pipe = <<>>
    /\ ~Has(clog, "send")
    /\ ~ENABLED Next

\* The child ran to its end by itself (no signal ended it).
ChildRanThrough == cpc = "exited" /\ ~Has(clog, "killed")

\* The steps of setup_package() all completed in the child.
SetupCompleted == call.fake \/ cstep = Len(Steps) + 1

\* C28 as stated: on every path through the child exactly one message is
\* sent, the action is invoked at most once and only after a setup that
\* did not raise, and the pipe is closed after the send.
C28_ExactlyOneMessagePerChild ==
    /\ Count(clog, "function") <= 1
    /\ Has(clog, "function") => SetupCompleted
    /\ ChildRanThrough =>
          /\ Count(clog, "send") = 1
          /\ Count(clog, "close") = 1
          /\ clog[Len(clog)] = "close"
          /\ clog[Len(clog) - 1] = "send"

\* C28, what the code gives: never two messages, the action at most once
\* and only after a completed setup, the close last; and exactly one
\* message unless the except clause itself raised.
C28_AtMostOneMessagePerChild ==
    /\ Count(clog, "function") <= 1
    /\ Has(clog, "function") => SetupCompleted
    /\ Count(clog, "send") <= 1
    /\ ChildRanThrough =>
          /\ Count(clog, "close") = 1
          /\ clog[Len(clog)] = "close"
          /\ (Count(clog, "send") = 1)
                <=> ~(exc # Unset /\ exc.where = "handler")

\* A child that ran to its end and sent nothing: the action raised in
\* test context and pkg has no test suite.
C28_ChildSentNothing ==
    /\ ChildRanThrough
    /\ Has(clog, "function")
    /\ Has(clog, "close")
    /\ ~Has(clog, "send")
    /\ call.context = "test"
    /\ ~pkgst.test_suite

(***************************************************************************)
(* set_module_variables_for_package(pkg).  pkgcfg holds the classes of the *)
(* packages and what each package is built with; env holds, for each       *)
(* module, the names bound in it; calls holds the packages the function    *)
(* was called for, in order.                                               *)
(***************************************************************************)
MaxCalls == 3

Packages == {"dep", "root"}

\* pkg.__class__
ClassOf(pkg) == IF pkg = "root" THEN "Root" ELSE "Dep"

\* cls.__module__
ModuleOfClass(cls) ==
    CASE cls = "Root" -> "spack.pkg.mystuff.root"
      [] cls = "Dep" -> "spack.pkg.builtin.dep"
      [] cls = "CMakePackage" -> "spack.build_systems.cmake"
      [] OTHER -> "spack.package"

\* cls.__bases__: the recipes' bases are part of the configuration.
BasesOf(cls, cfg) ==
    CASE cls \in {"Root", "Dep"} -> <<cfg.base[cls]>>
      [] cls = "CMakePackage" -> <<"PackageBase">>
      [] OTHER -> <<>>

\* parent_class_modules(cls): the modules of cls and of its bases below
\* PackageBase.  depth bounds the recursion by the height of the
\* hierarchies.
RECURSIVE parent_class_modules_from(_, _, _)
parent_class_modules_from(cls, cfg, depth) ==
    IF cls = "PackageBase" \/ depth = 0 THEN <<>>
    ELSE <<ModuleOfClass(cls)>>
            \o (IF BasesOf(cls, cfg) = <<>> THEN <<>>
                ELSE parent_class_modules_from(BasesOf(cls, cfg)[1], cfg, depth - 1))

parent_class_modules(cls, cfg) == parent_class_modules_from(cls, cfg, 4)

\* The names _set_variables_for_single_module binds for pkg.
Bindings(pkg, cfg) ==
    [prefix |-> <<"opt", pkg>>,
     make_jobs |-> LET jobs == IF cfg.parallel[pkg] THEN cfg.build_jobs ELSE 1
                   IN  IF jobs < cfg.cpu_count THEN jobs ELSE cfg.cpu_count,
     spack_cc |-> <<"env", cfg.compiler[pkg]>>,
     std_cmake_args |-> <<"-DCMAKE_INSTALL_PREFIX", pkg>>,
     marker |-> TRUE]

\* A module nothing was bound in.
NoBindings ==
    [prefix |-> <<>>, make_jobs |-> 0, spack_cc |-> <<>>, std_cmake_args |-> <<>>,
     marker |-> FALSE]

\* _set_variables_for_single_module(pkg, module): nothing is done in a
\* module that carries the marker.
_set_variables_for_single_module(pkg, module, cfg, ns) ==
    IF ns[module].marker THEN ns
    ELSE [ns EXCEPT ![module] = Bindings(pkg, cfg)]

\* for mod in modules: _set_variables_for_single_module(pkg, mod)
RECURSIVE SetModules(_, _, _, _)
SetModules(pkg, modules, cfg, ns) ==
    IF modules = <<>> THEN ns
    ELSE SetModules(pkg, Tail(modules), cfg,
                    _set_variables_for_single_module(pkg, Head(modules), cfg, ns))

set_module_variables_for_package(pkg, cfg, ns) ==
    SetModules(pkg, parent_class_modules(ClassOf(pkg), cfg), cfg, ns)

AllModules ==
    {"spack.pkg.mystuff.root", "spack.pkg.builtin.dep", "spack.build_systems.cmake"}

ModuleVarsInit ==
    /\ call = [fake |-> FALSE, dirty |-> FALSE, context |-> "build"]
    /\ pkgst = [log_path |-> TRUE, test_suite |-> TRUE,
                test_requires_compiler |-> FALSE]
    /\ host = [tty |-> FALSE, compiler_ok |-> TRUE, ccache |-> "off",
               log_on_disk |-> TRUE]
    /\ ppc = "idle"
    /\ cpc = "none"
    /\ cstep = 1
    /\ pipe = <<>>
    /\ pipe_closed = FALSE
    /\ input_stream = None
    /\ child_stdin = "devnull"
    /\ return_value = Unset
    /\ exc = Unset
    /\ child_result = Unset
    /\ outcome = NoOutcome
    /\ plog = <<>>
    /\ clog = <<>>
    /\ graph = <<>>
    /\ \E rb \in {"PackageBase", "CMakePackage", "Dep"},
          db \in {"PackageBase", "CMakePackage"},
          par \in [Packages -> BOOLEAN],
          comp \in [Packages -> {"gcc", "clang"}],
          cpus \in {1, 4} :
              pkgcfg = [base |-> [Root |-> rb, Dep |-> db], parallel |-> par,
                        compiler |-> comp, build_jobs |-> 16, cpu_count |-> cpus]
    /\ dep_context = "build"
    /\ dpc = "module_variables"
    /\ todo = <<>>
    /\ calls = <<>>
    /\ env = [mod \in AllModules |-> NoBindings]
    /\ environ = <<>>
    /\ preserved = <<>>
    /\ out = <<>>

\* One call of set_module_variables_for_package, for a dependency or for
\* the root.
SetModuleVariables ==
    /\ dpc = "module_variables"
    /\ Len(calls) < MaxCalls
    /\ \E pkg \in Packages :
          /\ env' = set_module_variables_for_package(pkg, pkgcfg, env)
          /\ calls' = Append(calls, pkg)
    /\ UNCHANGED <<graph, pkgcfg, dep_context, dpc, todo, environ, preserved, out>>
    /\ UNCHANGED forkVars

ModuleVarsNext == SetModuleVariables

InitModuleVars == ModuleVarsInit

SpecModuleVars == InitModuleVars /\ [][ModuleVarsNext]_vars

\* The package of the last call.
LastPkg == calls[Len(calls)]

\* C30 as stated: after the call for pkg every module of pkg's class
\* hierarchy holds the bindings computed for pkg, whatever calls came
\* before.
C30_ModulesHoldBindingsOfLastCall ==
    calls # <<>> =>
        LET modules == parent_class_modules(ClassOf(LastPkg), pkgcfg)
        IN  \A i \in 1..Len(modules) : env[modules[i]] = Bindings(LastPkg, pkgcfg)

\* The first package called for that has the module in its hierarchy.
FirstCaller(mod) ==
    LET is == {i \in 1..Len(calls) :
                  \E k \in 1..Len(parent_class_modules(ClassOf(calls[i]), pkgcfg)) :
                      parent_class_modules(ClassOf(calls[i]), pkgcfg)[k] = mod}
    IN  IF is = {} THEN None ELSE calls[CHOOSE i \in is : \A j \in is : i <= j]

\* C30, what the code gives: a module holds the bindings of the first
\* package called for that has it in its hierarchy, from then on.
C30_ModulesHoldBindingsOfFirstCall ==
    \A mod \in AllModules :
        IF FirstCaller(mod) = None THEN env[mod] = NoBindings
        ELSE env[mod] = Bindings(FirstCaller(mod), pkgcfg)

\* The composer's order, the dependency and then the root, both CMake
\* packages: the module of the build system holds the dependency's prefix
\* after the call for the root.
C30_SharedModuleKeepsDependency ==
    /\ calls = <<"dep", "root">>
    /\ pkgcfg.base["Root"] = "CMakePackage"
    /\ pkgcfg.base["Dep"] = "CMakePackage"
    /\ env["spack.build_systems.cmake"].prefix = <<"opt", "dep">>
    /\ env["spack.pkg.mystuff.root"].prefix = <<"opt", "root">>

====
